---- MODULE Spec2Model ----
(***************************************************************************)
(* Pricing strategy evaluation engine (internal/service, internal/domain). *)
(*                                                                         *)
(* float64 prices are modelled as exact rationals [n, d] in lowest terms   *)
(* with d > 0, so that equality of prices is equality of records.  Values  *)
(* of Go type interface{} are records [k, num, str] whose k names the      *)
(* dynamic type ("absent" for a key that is not in the map).  Strings that *)
(* the code inspects character by character (locations, HH:MM times, rule  *)
(* conditions) are sequences of one-character strings.                     *)
(***************************************************************************)
EXTENDS Integers, Sequences, FiniteSets, TLC

VARIABLES pc, req, config, response, err, calls, strategies,
          submitted, peer, handler, logger,
          rl, goroutines, wallClock, granted

vars == <<pc, req, config, response, err, calls, strategies,
          submitted, peer, handler, logger,
          rl, goroutines, wallClock, granted>>

\* the rate limiter of the API, its goroutines and their clock
limiterVars == <<rl, goroutines, wallClock, granted>>

----------------------------------------------------------------------------
(* Bounds of the model *)

MaxRules == 2
MaxWindows == 2

----------------------------------------------------------------------------
(* Exact rational arithmetic standing for float64 arithmetic *)

Abs(x) == IF x < 0 THEN -x ELSE x

RECURSIVE GCD(_, _)
GCD(a, b) == IF b = 0 THEN a ELSE GCD(b, a % b)

Rat(n, d) ==
    LET g == GCD(Abs(n), Abs(d))
        s == IF d < 0 THEN -1 ELSE 1
    IN  [n |-> (s * n) \div g, d |-> (s * d) \div g]

R(i) == [n |-> i, d |-> 1]
Zero == R(0)
One == R(1)

RAdd(a, b) == Rat(a.n * b.d + b.n * a.d, a.d * b.d)
RSub(a, b) == Rat(a.n * b.d - b.n * a.d, a.d * b.d)
RMul(a, b) == Rat(a.n * b.n, a.d * b.d)
RLt(a, b) == a.n * b.d < b.n * a.d
RLe(a, b) == a.n * b.d <= b.n * a.d
RGt(a, b) == RLt(b, a)
RGe(a, b) == RLe(b, a)

\* floor of a rational (d > 0, \div rounds toward minus infinity)
FloorR(a) == a.n \div a.d

\* Go's float64 -> int conversion: truncation toward zero
TruncR(a) == IF a.n >= 0 THEN a.n \div a.d ELSE -((-a.n) \div a.d)

----------------------------------------------------------------------------
(* Dynamic values and the accessors of internal/domain *)

Absent == [k |-> "absent", num |-> Zero, str |-> ""]
F64(r) == [k |-> "float64", num |-> r, str |-> ""]
F32(r) == [k |-> "float32", num |-> r, str |-> ""]
IntV(i) == [k |-> "int", num |-> R(i), str |-> ""]
Int64V(i) == [k |-> "int64", num |-> R(i), str |-> ""]
Str(s) == [k |-> "string", num |-> Zero, str |-> s]
Bool(b) == [k |-> "bool", num |-> IF b THEN One ELSE Zero, str |-> ""]

NumericKinds == {"float64", "float32", "int", "int64"}

\* GetFloat64: (value, ok)
GetFloat64(m, key) ==
    IF m[key].k \in NumericKinds
    THEN [v |-> m[key].num, ok |-> TRUE]
    ELSE [v |-> Zero, ok |-> FALSE]

\* GetString: (value, ok); emptyStr is the zero value of the key's string type
GetStringOr(m, key, emptyStr) ==
    IF m[key].k = "string"
    THEN [v |-> m[key].str, ok |-> TRUE]
    ELSE [v |-> emptyStr, ok |-> FALSE]

GetString(m, key) == GetStringOr(m, key, "")

\* Composite values: [k, m, items]; m is a map from keys to values (a
\* function whose domain is the set of keys present), items a list
AbsentC == [k |-> "absent", m |-> <<>>, items |-> <<>>]
MapV(f) == [k |-> "map", m |-> f, items |-> <<>>]
ListV(l) == [k |-> "list", m |-> <<>>, items |-> l]
\* a value of a type the code does not expect under the key (a string)
OtherC == [k |-> "string", m |-> <<>>, items |-> <<>>]

\* GetMap: (value, ok)
GetMap(m, key) ==
    IF m[key].k = "map"
    THEN [v |-> m[key].m, ok |-> TRUE]
    ELSE [v |-> <<>>, ok |-> FALSE]

\* convertToFloat of the service package (same cases as GetFloat64)
convertToFloat(val) ==
    IF val.k \in NumericKinds
    THEN [v |-> val.num, ok |-> TRUE]
    ELSE [v |-> Zero, ok |-> FALSE]

----------------------------------------------------------------------------
(* Bounds and rounding *)

RoundToTwoDecimals(val) ==
    Rat(TruncR(RAdd(RMul(val, R(100)), Rat(1, 2))), 100)

\* ApplyBounds taking a bound of 0 as a floor or a ceiling of 0
ApplyBounds_ZeroIsBound(price, min, max) ==
    IF RLt(price, min) THEN min
    ELSE IF RGt(price, max) THEN max
    ELSE price

ApplyBounds(price, min, max) ==
    IF RGt(min, Zero) /\ RLt(price, min) THEN min
    ELSE IF RGt(max, Zero) /\ RGt(price, max) THEN max
    ELSE price

----------------------------------------------------------------------------
(* Strategy names and error kinds *)

StrategyTypeCostPlus == "cost_plus"
StrategyTypeGeographic == "geographic"
StrategyTypeTimeBased == "time_based"
StrategyTypeRuleBased == "rule_based"

ValidStrategies ==
    {StrategyTypeCostPlus, StrategyTypeGeographic,
     StrategyTypeRuleBased, StrategyTypeTimeBased}

NoErr == "nil"
ErrInvalidStrategy == "ErrInvalidStrategy"
ErrMissingRequiredField == "ErrMissingRequiredField"
ErrInvalidFieldValue == "ErrInvalidFieldValue"
ErrConfigurationInvalid == "ErrConfigurationInvalid"
ErrNegativePrice == "ErrNegativePrice"
\* an error built by fmt.Errorf without wrapping one of the sentinels
ErrUnwrapped == "unwrapped"

ValidateStrategy(strategy) ==
    IF strategy \in ValidStrategies THEN NoErr ELSE ErrInvalidStrategy

----------------------------------------------------------------------------
(* Requests, configurations and responses *)

NoInputs ==
    [base_cost |-> Absent, base_price |-> Absent, markup_type |-> Absent,
     markup_value |-> Absent, tax_rate |-> Absent, location |-> Absent,
     timestamp |-> Absent, current_demand |-> Absent, currency |-> Absent,
     quantity |-> Absent, tier |-> Absent]

NoConfig ==
    [markup_type |-> Absent, markup_value |-> Absent, tax_rate |-> Absent,
     min_price |-> Absent, max_price |-> Absent, currency |-> Absent,
     default_currency |-> Absent, surge_enabled |-> Absent,
     base_surge_threshold |-> Absent, tier |-> Absent,
     regional_multipliers |-> AbsentC, currency_map |-> AbsentC,
     time_windows |-> AbsentC, rules |-> AbsentC]

\* time.Time: the zero value, or a weekday and a wall-clock hour and minute
ZeroTime == [zero |-> TRUE, day |-> "", hh |-> 0, mm |-> 0]
TimeOf(day, hh, mm) == [zero |-> FALSE, day |-> day, hh |-> hh, mm |-> mm]

NilRuleID == "nil"

NilResponse ==
    [isNil |-> TRUE, FinalPrice |-> Zero, OriginalPrice |-> Zero,
     Currency |-> "", Adjustments |-> <<>>, Details |-> <<>>,
     Strategy |-> "", CalculatedAt |-> ZeroTime, AppliedRuleID |-> NilRuleID]

\* &domain.PricingResponse{...} as a strategy builds it (metadata unset)
NewResponse(final, original, currency, adjustments, details) ==
    [isNil |-> FALSE, FinalPrice |-> final, OriginalPrice |-> original,
     Currency |-> currency, Adjustments |-> adjustments, Details |-> details,
     Strategy |-> "", CalculatedAt |-> ZeroTime, AppliedRuleID |-> NilRuleID]

PriceAdjustment(type, description, amount, applied) ==
    [Type |-> type, Description |-> description,
     Amount |-> amount, Applied |-> applied]

\* result of strategy.Calculate: (response, error), with the stages of the
\* method body that ran before it returned
Failed(e, stages) == [resp |-> NilResponse, err |-> e, stages |-> stages]
Computed(resp, stages) == [resp |-> resp, err |-> NoErr, stages |-> stages]

getCurrency(r, c) ==
    IF GetString(r.Inputs, "currency").ok
    THEN GetString(r.Inputs, "currency").v
    ELSE IF GetString(c, "currency").ok
    THEN GetString(c, "currency").v
    ELSE "USD"

----------------------------------------------------------------------------
(* CostPlusStrategy *)

CostPlusValidate(c) ==
    IF GetFloat64(c, "markup_value").ok
       /\ RLt(GetFloat64(c, "markup_value").v, Zero)
    THEN ErrUnwrapped
    ELSE IF GetFloat64(c, "tax_rate").ok
            /\ (RLt(GetFloat64(c, "tax_rate").v, Zero)
                \/ RGt(GetFloat64(c, "tax_rate").v, One))
    THEN ErrUnwrapped
    ELSE NoErr

\* markup_type: inputs, then config, then "percentage"
CostPlusMarkupType(r, c) ==
    LET fromInputs == GetString(r.Inputs, "markup_type").v
        fromConfig == GetString(c, "markup_type").v
    IN  IF fromInputs # "" THEN fromInputs
        ELSE IF fromConfig # "" THEN fromConfig
        ELSE "percentage"

\* CostPlusMarkupValue with 0 for a markup_value found in neither map
CostPlusMarkupValue_ZeroDefault(r, c) ==
    IF GetFloat64(r.Inputs, "markup_value").ok
    THEN GetFloat64(r.Inputs, "markup_value")
    ELSE IF GetFloat64(c, "markup_value").ok
    THEN GetFloat64(c, "markup_value")
    ELSE [v |-> Zero, ok |-> TRUE]

\* markup_value: inputs, then config: (value, ok)
CostPlusMarkupValue(r, c) ==
    IF GetFloat64(r.Inputs, "markup_value").ok
    THEN GetFloat64(r.Inputs, "markup_value")
    ELSE GetFloat64(c, "markup_value")

\* tax_rate: inputs unless zero or unreadable, then config, else 0
CostPlusTaxRate(r, c) ==
    LET fromInputs == GetFloat64(r.Inputs, "tax_rate").v
    IN  IF fromInputs = Zero THEN GetFloat64(c, "tax_rate").v ELSE fromInputs

CostPlusCalculate(r, c) ==
    LET base == GetFloat64(r.Inputs, "base_cost")
        baseCost == base.v
        markupType == CostPlusMarkupType(r, c)
        markup == CostPlusMarkupValue(r, c)
        markupValue == markup.v
        taxRate == CostPlusTaxRate(r, c)
        markupAmount ==
            IF markupType = "percentage"
            THEN RMul(baseCost, RMul(markupValue, Rat(1, 100)))
            ELSE markupValue
        subtotal == RAdd(baseCost, markupAmount)
        taxAmount == RMul(subtotal, taxRate)
        unbounded == RAdd(subtotal, taxAmount)
        minPrice == GetFloat64(c, "min_price").v
        maxPrice == GetFloat64(c, "max_price").v
        finalPrice == ApplyBounds(unbounded, minPrice, maxPrice)
        markupAdj ==
            <<PriceAdjustment("markup", markupType, markupValue, markupAmount)>>
        taxAdj ==
            IF RGt(taxAmount, Zero)
            THEN <<PriceAdjustment("tax", "sales tax", taxRate, taxAmount)>>
            ELSE <<>>
        details ==
            [base_cost |-> baseCost, markup_type |-> markupType,
             markup_value |-> markupValue,
             markup_amount |-> RoundToTwoDecimals(markupAmount),
             subtotal |-> RoundToTwoDecimals(subtotal),
             tax_rate |-> taxRate,
             tax_amount |-> RoundToTwoDecimals(taxAmount),
             final_price |-> RoundToTwoDecimals(finalPrice)]
    IN  IF ~base.ok THEN Failed(ErrMissingRequiredField, <<"base">>)
        ELSE IF RLt(baseCost, Zero)
        THEN Failed(ErrInvalidFieldValue, <<"base">>)
        ELSE IF ~markup.ok
        THEN Failed(ErrMissingRequiredField, <<"base", "resolve">>)
        ELSE IF markupType \notin {"percentage", "fixed"}
        THEN Failed(ErrInvalidFieldValue, <<"base", "resolve">>)
        ELSE Computed(NewResponse(finalPrice, baseCost, getCurrency(r, c),
                                  markupAdj \o taxAdj, details),
                      <<"base", "resolve", "arithmetic", "bounds">>)

----------------------------------------------------------------------------
(* Strings as sequences of characters: the functions of package strings    *)
(* and fmt that the strategies use                                         *)

\* "US-CA" is Chars5("U","S","-","C","A"), and so on
EmptyChars == <<>>

UpperTable ==
    [a |-> "A", b |-> "B", c |-> "C", d |-> "D", e |-> "E", f |-> "F",
     g |-> "G", h |-> "H", i |-> "I", j |-> "J", k |-> "K", l |-> "L",
     m |-> "M", n |-> "N", o |-> "O", p |-> "P", q |-> "Q", r |-> "R",
     s |-> "S", t |-> "T", u |-> "U", v |-> "V", w |-> "W", x |-> "X",
     y |-> "Y", z |-> "Z"]

UpperChar(ch) == IF ch \in DOMAIN UpperTable THEN UpperTable[ch] ELSE ch

\* strings.ToUpper
ToUpper(chars) == [i \in 1..Len(chars) |-> UpperChar(chars[i])]

IsSpace(ch) == ch \in {" ", "\t", "\n"}

RECURSIVE TrimLeft(_, _)
TrimLeft(chars, cutset) ==
    IF chars # <<>> /\ Head(chars) \in cutset
    THEN TrimLeft(Tail(chars), cutset)
    ELSE chars

RECURSIVE TrimRight(_, _)
TrimRight(chars, cutset) ==
    IF chars # <<>> /\ chars[Len(chars)] \in cutset
    THEN TrimRight(SubSeq(chars, 1, Len(chars) - 1), cutset)
    ELSE chars

\* strings.Trim(s, cutset)
Trim(chars, cutset) == TrimRight(TrimLeft(chars, cutset), cutset)

\* strings.TrimSpace
TrimSpace(chars) == Trim(chars, {" ", "\t", "\n"})

HasPrefixAt(chars, sep, i) ==
    /\ i + Len(sep) - 1 <= Len(chars)
    /\ SubSeq(chars, i, i + Len(sep) - 1) = sep

\* index of the first occurrence of sep at or after i, 0 when there is none
RECURSIVE IndexFrom(_, _, _)
IndexFrom(chars, sep, i) ==
    IF i + Len(sep) - 1 > Len(chars) THEN 0
    ELSE IF HasPrefixAt(chars, sep, i) THEN i
    ELSE IndexFrom(chars, sep, i + 1)

\* strings.Contains
Contains(chars, sep) == IndexFrom(chars, sep, 1) # 0

\* strings.Split(s, sep) for a non-empty sep: the parts between the
\* non-overlapping occurrences of sep, left to right
RECURSIVE Split(_, _)
Split(chars, sep) ==
    LET i == IndexFrom(chars, sep, 1)
    IN  IF i = 0 THEN <<chars>>
        ELSE <<SubSeq(chars, 1, i - 1)>>
             \o Split(SubSeq(chars, i + Len(sep), Len(chars)), sep)

DigitChars == <<"0", "1", "2", "3", "4", "5", "6", "7", "8", "9">>
IsDigit(ch) == \E i \in 1..10 : DigitChars[i] = ch
DigitValue(ch) == (CHOOSE i \in 1..10 : DigitChars[i] = ch) - 1

\* byte order of the characters that occur in HH:MM strings
CharCode(ch) == IF IsDigit(ch) THEN 48 + DigitValue(ch)
                ELSE IF ch = ":" THEN 58 ELSE 0

\* a <= b for Go strings: bytewise lexicographic order
RECURSIVE StringLe(_, _)
StringLe(a, b) ==
    IF a = <<>> THEN TRUE
    ELSE IF b = <<>> THEN FALSE
    ELSE IF CharCode(Head(a)) # CharCode(Head(b))
    THEN CharCode(Head(a)) < CharCode(Head(b))
    ELSE StringLe(Tail(a), Tail(b))

\* decimal digits of a natural number
RECURSIVE NatChars(_)
NatChars(i) ==
    IF i < 10 THEN <<DigitChars[i + 1]>>
    ELSE NatChars(i \div 10) \o <<DigitChars[(i % 10) + 1]>>

\* fmt.Sprintf("%02d", i) for 0 <= i
TwoDigits(i) == IF i < 10 THEN <<"0">> \o NatChars(i) ELSE NatChars(i)

\* number of leading digits of chars
RECURSIVE DigitRun(_)
DigitRun(chars) ==
    IF chars # <<>> /\ IsDigit(Head(chars)) THEN 1 + DigitRun(Tail(chars))
    ELSE 0

\* value of a sequence of digits
RECURSIVE DigitsValue(_)
DigitsValue(chars) ==
    IF chars = <<>> THEN 0
    ELSE 10 * DigitsValue(SubSeq(chars, 1, Len(chars) - 1))
         + DigitValue(chars[Len(chars)])

RECURSIVE Pow10(_)
Pow10(i) == IF i = 0 THEN 1 ELSE 10 * Pow10(i - 1)

\* parseFloat: fmt.Sscanf(s, "%f", &f): an optional sign, digits, an optional
\* point and digits; what follows the number is left unread, and a text
\* without a leading number is an error.  (No exponents in the model.)
parseFloat(chars) ==
    LET signed == chars # <<>> /\ Head(chars) \in {"+", "-"}
        body == IF signed THEN Tail(chars) ELSE chars
        intRun == DigitRun(body)
        rest == SubSeq(body, intRun + 1, Len(body))
        pointed == rest # <<>> /\ Head(rest) = "."
        fracRun == IF pointed THEN DigitRun(Tail(rest)) ELSE 0
        intPart == DigitsValue(SubSeq(body, 1, intRun))
        fracPart == DigitsValue(SubSeq(rest, 2, fracRun + 1))
        magnitude == RAdd(R(intPart), Rat(fracPart, Pow10(fracRun)))
    IN  IF intRun + fracRun = 0 THEN [v |-> Zero, ok |-> FALSE]
        ELSE [v |-> IF signed /\ Head(chars) = "-"
                    THEN RSub(Zero, magnitude) ELSE magnitude,
              ok |-> TRUE]

\* digits after the point of a fraction num/den < 1 with den dividing 10^4,
\* without trailing zeros
RECURSIVE FracChars(_, _)
FracChars(num, den) ==
    IF num = 0 THEN <<>>
    ELSE <<DigitChars[((10 * num) \div den) + 1]>>
         \o FracChars((10 * num) % den, den)

\* fmt.Sprintf("%v", x) of a float64 or int x, for the decimal values of the model
NumberChars(r) ==
    LET mag == Abs(r.n)
        whole == mag \div r.d
        frac == mag % r.d
    IN  (IF r.n < 0 THEN <<"-">> ELSE <<>>)
        \o NatChars(whole)
        \o (IF frac = 0 THEN <<>> ELSE <<".">> \o FracChars(frac, r.d))

\* fmt.Sprintf("%v", fieldValue)
FormatValue(val) ==
    IF val.k = "string" THEN val.str
    ELSE IF val.k \in NumericKinds THEN NumberChars(val.num)
    ELSE IF val.k = "bool"
    THEN (IF val.num = One THEN <<"t", "r", "u", "e">>
          ELSE <<"f", "a", "l", "s", "e">>)
    ELSE <<"<", "n", "i", "l", ">">>

----------------------------------------------------------------------------
(* GeographicStrategy *)

DefaultKey == <<"d", "e", "f", "a", "u", "l", "t">>
UnknownRegion == <<"u", "n", "k", "n", "o", "w", "n">>
Dash == <<"-">>

\* Validate: the map is required and non-empty; every multiplier is a
\* float64, float32 or int, and positive
GeographicValidate(c) ==
    LET multipliers == GetMap(c, "regional_multipliers")
        m == multipliers.v
    IN  IF ~multipliers.ok \/ DOMAIN m = {} THEN ErrConfigurationInvalid
        ELSE IF \E region \in DOMAIN m :
                    \/ m[region].k \notin {"float64", "float32", "int"}
                    \/ RLe(m[region].num, Zero)
        THEN ErrUnwrapped
        ELSE NoErr

\* findRegionalMultiplier trying the "default" entry before the country code
findRegionalMultiplier_DefaultFirst(location, multipliers) ==
    LET loc == ToUpper(TrimSpace(location))
        countryCode == Split(loc, Dash)[1]
        Usable(key) == key \in DOMAIN multipliers
                       /\ convertToFloat(multipliers[key]).ok
    IN  IF Usable(loc)
        THEN [multiplier |-> convertToFloat(multipliers[loc]).v,
              region |-> loc]
        ELSE IF Usable(DefaultKey)
        THEN [multiplier |-> convertToFloat(multipliers[DefaultKey]).v,
              region |-> DefaultKey]
        ELSE IF Contains(loc, Dash) /\ Usable(countryCode)
        THEN [multiplier |-> convertToFloat(multipliers[countryCode]).v,
              region |-> countryCode]
        ELSE [multiplier |-> One, region |-> UnknownRegion]

\* findRegionalMultiplier: (multiplier, regionUsed)
findRegionalMultiplier(location, multipliers) ==
    LET loc == ToUpper(TrimSpace(location))
        countryCode == Split(loc, Dash)[1]
        Usable(key) == key \in DOMAIN multipliers
                       /\ convertToFloat(multipliers[key]).ok
    IN  IF Usable(loc)
        THEN [multiplier |-> convertToFloat(multipliers[loc]).v,
              region |-> loc]
        ELSE IF Contains(loc, Dash) /\ Usable(countryCode)
        THEN [multiplier |-> convertToFloat(multipliers[countryCode]).v,
              region |-> countryCode]
        ELSE IF Usable(DefaultKey)
        THEN [multiplier |-> convertToFloat(multipliers[DefaultKey]).v,
              region |-> DefaultKey]
        ELSE [multiplier |-> One, region |-> UnknownRegion]

\* getCurrencyForRegion
getCurrencyForRegion(location, c) ==
    LET loc == ToUpper(TrimSpace(location))
        countryCode == Split(loc, Dash)[1]
        currencyMap == GetMap(c, "currency_map")
        HasCurrency(key) == /\ currencyMap.ok
                            /\ key \in DOMAIN currencyMap.v
                            /\ currencyMap.v[key].k = "string"
    IN  IF HasCurrency(loc) THEN currencyMap.v[loc].str
        ELSE IF Contains(loc, Dash) /\ HasCurrency(countryCode)
        THEN currencyMap.v[countryCode].str
        ELSE IF GetString(c, "default_currency").ok
        THEN GetString(c, "default_currency").v
        ELSE "USD"

\* getAvailableRegions (the order of a Go map iteration is not modelled)
getAvailableRegions(multipliers) == DOMAIN multipliers

\* GeographicCheckInputs looking at the location before the base price
GeographicCheckInputs_LocationFirst(r) ==
    LET base == GetFloat64(r.Inputs, "base_price")
        loc == GetStringOr(r.Inputs, "location", <<>>)
    IN  IF ~loc.ok \/ loc.v = <<>>
        THEN Failed(ErrMissingRequiredField, <<"resolve">>)
        ELSE IF ~base.ok THEN Failed(ErrMissingRequiredField, <<"resolve", "base">>)
        ELSE IF RLt(base.v, Zero)
        THEN Failed(ErrInvalidFieldValue, <<"resolve", "base">>)
        ELSE Failed(NoErr, <<"base", "resolve">>)

\* the checks of base_price and location that open Calculate: the failure
\* they return, or no error
GeographicCheckInputs(r) ==
    LET base == GetFloat64(r.Inputs, "base_price")
        loc == GetStringOr(r.Inputs, "location", <<>>)
    IN  IF ~base.ok THEN Failed(ErrMissingRequiredField, <<"base">>)
        ELSE IF RLt(base.v, Zero) THEN Failed(ErrInvalidFieldValue, <<"base">>)
        ELSE IF ~loc.ok \/ loc.v = <<>>
        THEN Failed(ErrMissingRequiredField, <<"base", "resolve">>)
        ELSE Failed(NoErr, <<"base", "resolve">>)

GeographicCalculate(r, c) ==
    LET base == GetFloat64(r.Inputs, "base_price")
        basePrice == base.v
        loc == GetStringOr(r.Inputs, "location", <<>>)
        location == loc.v
        multipliers == GetMap(c, "regional_multipliers").v
        found == findRegionalMultiplier(location, multipliers)
        unbounded == RMul(basePrice, found.multiplier)
        minPrice == GetFloat64(c, "min_price").v
        maxPrice == GetFloat64(c, "max_price").v
        finalPrice ==
            RoundToTwoDecimals(ApplyBounds(unbounded, minPrice, maxPrice))
        currency == getCurrencyForRegion(location, c)
        adjustments ==
            <<PriceAdjustment("regional_multiplier", found.region,
                              found.multiplier, RSub(finalPrice, basePrice))>>
        details ==
            [base_price |-> basePrice, location |-> location,
             region_used |-> found.region, multiplier |-> found.multiplier,
             final_price |-> RoundToTwoDecimals(finalPrice),
             currency |-> currency,
             available_regions |-> getAvailableRegions(multipliers)]
        inputError == GeographicCheckInputs(r)
    IN  IF inputError.err # NoErr THEN inputError
        ELSE Computed(NewResponse(finalPrice, basePrice, currency,
                                  adjustments, details),
                      <<"base", "resolve", "lookup", "arithmetic", "bounds">>)

----------------------------------------------------------------------------
(* TimeBasedStrategy *)

SurgeSlope == Rat(1, 2)
SurgeCap == R(3)
DefaultSurgeThreshold == One

\* time.Parse(time.RFC3339, s): a timestamp text is kept as what it parses
\* to, [valid, t]; (t, ok)
ParseRFC3339(text) == [t |-> text.t, ok |-> text.valid]
TimestampText(t) == [valid |-> TRUE, t |-> t]
BadTimestampText == [valid |-> FALSE, t |-> ZeroTime]

LowerTable ==
    [Monday |-> "monday", Tuesday |-> "tuesday", Wednesday |-> "wednesday",
     Thursday |-> "thursday", Friday |-> "friday", Saturday |-> "saturday",
     Sunday |-> "sunday", MONDAY |-> "monday", SATURDAY |-> "saturday"]

\* strings.ToLower on the weekday names of the model
ToLower(name) == IF name \in DOMAIN LowerTable THEN LowerTable[name] ELSE name

\* isValidTimeFormat: two parts around one colon, and time.Parse("15:04")
\* accepts it: an hour of one or two digits below 24, a minute of exactly
\* two digits below 60
isValidTimeFormat(timeStr) ==
    LET parts == Split(timeStr, <<":">>)
        hour == parts[1]
        minute == parts[2]
    IN  /\ Len(parts) = 2
        /\ Len(hour) \in {1, 2} /\ DigitRun(hour) = Len(hour)
        /\ DigitsValue(hour) < 24
        /\ Len(minute) = 2 /\ DigitRun(minute) = 2
        /\ DigitsValue(minute) < 60

TimeBasedValidate(c) ==
    LET data == c["time_windows"]
        windows == data.items
        BadWindow(w) ==
            \/ w.k # "map"
            \/ w.multiplier.k = "absent"
            \/ /\ w.start_time.k = "string"
               /\ ~isValidTimeFormat(w.start_time.str)
            \/ /\ w.end_time.k = "string"
               /\ ~isValidTimeFormat(w.end_time.str)
    IN  IF data.k = "absent" THEN ErrConfigurationInvalid
        ELSE IF data.k # "list" THEN ErrUnwrapped
        ELSE IF Len(windows) = 0 THEN ErrUnwrapped
        ELSE IF \E i \in 1..Len(windows) : BadWindow(windows[i])
        THEN ErrUnwrapped
        ELSE NoErr

\* windowApplies reading start_time > end_time as a window that runs past
\* midnight
windowApplies_PastMidnight(dayName, currentTime, window) ==
    LET dayMatches ==
            \/ Len(window.Days) = 0
            \/ \E i \in 1..Len(window.Days) : ToLower(window.Days[i]) = dayName
    IN  IF ~dayMatches THEN FALSE
        ELSE IF window.StartTime = <<>> \/ window.EndTime = <<>> THEN TRUE
        ELSE IF StringLe(window.StartTime, window.EndTime)
        THEN /\ StringLe(window.StartTime, currentTime)
             /\ StringLe(currentTime, window.EndTime)
        ELSE \/ StringLe(window.StartTime, currentTime)
             \/ StringLe(currentTime, window.EndTime)

\* windowApplies: the day matches, and one of the times is empty or the
\* HH:MM string lies within [StartTime, EndTime]
windowApplies(dayName, currentTime, window) ==
    LET dayMatches ==
            \/ Len(window.Days) = 0
            \/ \E i \in 1..Len(window.Days) : ToLower(window.Days[i]) = dayName
    IN  IF ~dayMatches THEN FALSE
        ELSE IF window.StartTime = <<>> \/ window.EndTime = <<>> THEN TRUE
        ELSE /\ StringLe(window.StartTime, currentTime)
             /\ StringLe(currentTime, window.EndTime)

\* the strings of a days list, lowercased; other elements are dropped
RECURSIVE ParseDays(_)
ParseDays(items) ==
    IF items = <<>> THEN <<>>
    ELSE (IF Head(items).k = "string"
          THEN <<ToLower(Head(items).str)>> ELSE <<>>)
         \o ParseDays(Tail(items))

\* the TimeWindow that findActiveWindows parses out of a window map
ParseTimeWindow(w) ==
    [Multiplier |-> IF convertToFloat(w.multiplier).ok
                    THEN w.multiplier.num ELSE One,
     Days |-> IF w.days.k = "list" THEN ParseDays(w.days.items) ELSE <<>>,
     StartTime |-> GetStringOr(w, "start_time", <<>>).v,
     EndTime |-> GetStringOr(w, "end_time", <<>>).v]

\* AddActiveWindow keeping the multiplier of the first active window only
AddActiveWindow_FirstMatch(acc, tw) ==
    [active |-> Append(acc.active, tw),
     multiplier |-> IF acc.active = <<>> THEN tw.Multiplier
                    ELSE acc.multiplier]

\* a window that applies joins the active windows and multiplies the multiplier
AddActiveWindow(acc, tw) ==
    [active |-> Append(acc.active, tw),
     multiplier |-> RMul(acc.multiplier, tw.Multiplier)]

\* the loop of findActiveWindows over windows[i..], from the active windows
\* and the multiplier accumulated so far
RECURSIVE ActiveWindowsFrom(_, _, _, _, _)
ActiveWindowsFrom(windows, i, dayName, currentTime, acc) ==
    IF i > Len(windows) THEN acc
    ELSE IF windows[i].k # "map"
    THEN ActiveWindowsFrom(windows, i + 1, dayName, currentTime, acc)
    ELSE LET tw == ParseTimeWindow(windows[i])
         IN  IF windowApplies(dayName, currentTime, tw)
             THEN ActiveWindowsFrom(windows, i + 1, dayName, currentTime,
                                    AddActiveWindow(acc, tw))
             ELSE ActiveWindowsFrom(windows, i + 1, dayName, currentTime, acc)

\* findActiveWindows: (activeWindows, multiplier)
findActiveWindows(timestamp, windows) ==
    LET dayName == ToLower(timestamp.day)
        currentTime ==
            TwoDigits(timestamp.hh) \o <<":">> \o TwoDigits(timestamp.mm)
    IN  ActiveWindowsFrom(windows, 1, dayName, currentTime,
                          [active |-> <<>>, multiplier |-> One])

calculateSurgeMultiplier(currentDemand, baseThreshold) ==
    LET excess == RSub(currentDemand, baseThreshold)
        surgeMultiplier == RAdd(One, RMul(excess, SurgeSlope))
    IN  IF RLe(currentDemand, baseThreshold) THEN One
        ELSE IF RGt(surgeMultiplier, SurgeCap) THEN SurgeCap
        ELSE surgeMultiplier

\* the timestamp Calculate evaluates the windows at
TimeBasedTimestamp(r) ==
    LET text == GetStringOr(r.Inputs, "timestamp", BadTimestampText)
    IN  IF text.ok /\ ParseRFC3339(text.v).ok
        THEN ParseRFC3339(text.v).t
        ELSE r.RequestedAt

TimeBasedSurge(r, c) ==
    LET demand == GetFloat64(r.Inputs, "current_demand")
        surgeEnabled == c["surge_enabled"].k = "bool"
                        /\ c["surge_enabled"].num = One
        configured == GetFloat64(c, "base_surge_threshold").v
        surgeThreshold ==
            IF configured = Zero THEN DefaultSurgeThreshold ELSE configured
    IN  IF demand.ok /\ surgeEnabled
        THEN calculateSurgeMultiplier(demand.v, surgeThreshold)
        ELSE One

TimeBasedCalculate(r, c) ==
    LET base == GetFloat64(r.Inputs, "base_price")
        basePrice == base.v
        timestamp == TimeBasedTimestamp(r)
        windows == IF c["time_windows"].k = "list"
                   THEN c["time_windows"].items ELSE <<>>
        found == findActiveWindows(timestamp, windows)
        activeWindows == found.active
        totalMultiplier == found.multiplier
        surgeMultiplier == TimeBasedSurge(r, c)
        combinedMultiplier == RMul(totalMultiplier, surgeMultiplier)
        unbounded == RMul(basePrice, combinedMultiplier)
        minPrice == GetFloat64(c, "min_price").v
        maxPrice == GetFloat64(c, "max_price").v
        finalPrice == ApplyBounds(unbounded, minPrice, maxPrice)
        windowAdj ==
            [i \in 1..Len(activeWindows) |->
                PriceAdjustment("time_window",
                    <<activeWindows[i].Days, activeWindows[i].StartTime,
                      activeWindows[i].EndTime>>,
                    activeWindows[i].Multiplier,
                    RMul(basePrice, RSub(activeWindows[i].Multiplier, One)))]
        surgeAdj ==
            IF RGt(surgeMultiplier, One)
            THEN <<PriceAdjustment("surge", <<>>, surgeMultiplier,
                       RMul(RMul(basePrice, totalMultiplier),
                            RSub(surgeMultiplier, One)))>>
            ELSE <<>>
        details ==
            [base_price |-> basePrice, timestamp |-> timestamp,
             day_of_week |-> timestamp.day, hour |-> timestamp.hh,
             active_windows |-> Len(activeWindows),
             time_multiplier |-> totalMultiplier,
             surge_multiplier |-> surgeMultiplier,
             combined_multiplier |-> combinedMultiplier,
             final_price |-> RoundToTwoDecimals(finalPrice),
             current_demand |->
                 IF GetFloat64(r.Inputs, "current_demand").ok
                 THEN r.Inputs["current_demand"] ELSE Absent]
    IN  IF ~base.ok THEN Failed(ErrMissingRequiredField, <<"base">>)
        ELSE IF RLt(basePrice, Zero)
        THEN Failed(ErrInvalidFieldValue, <<"base">>)
        ELSE Computed(NewResponse(finalPrice, basePrice, getCurrency(r, c),
                                  windowAdj \o surgeAdj, details),
                      <<"base", "resolve", "lookup", "arithmetic", "bounds">>)

----------------------------------------------------------------------------
(* RuleBasedStrategy *)

ValidActions ==
    {"apply_discount", "apply_markup", "set_multiplier",
     "add_fixed_amount", "set_price"}

\* the spelling of the input keys that rule conditions can name
InputKeyChars ==
    [quantity |-> <<"q", "u", "a", "n", "t", "i", "t", "y">>,
     tier |-> <<"t", "i", "e", "r">>,
     base_price |-> <<"b", "a", "s", "e", "_", "p", "r", "i", "c", "e">>]

\* context[fieldName]: (value, exists)
ContextLookup(context, fieldName) ==
    LET Named(key) == /\ InputKeyChars[key] = fieldName
                      /\ context[key].k # "absent"
    IN  IF \E key \in DOMAIN InputKeyChars : Named(key)
        THEN [v |-> context[CHOOSE key \in DOMAIN InputKeyChars : Named(key)],
              ok |-> TRUE]
        ELSE [v |-> Absent, ok |-> FALSE]

RuleBasedValidate(c) ==
    LET data == c["rules"]
        rules == data.items
        BadRule(rule) ==
            \/ rule.k # "map"
            \/ rule.condition.k # "string"
            \/ rule.action.k # "string"
            \/ rule.value.k \notin NumericKinds
            \/ rule.action.str \notin ValidActions
    IN  IF data.k = "absent" THEN ErrConfigurationInvalid
        ELSE IF data.k # "list" THEN ErrUnwrapped
        ELSE IF Len(rules) = 0 THEN ErrUnwrapped
        ELSE IF \E i \in 1..Len(rules) : BadRule(rules[i]) THEN ErrUnwrapped
        ELSE NoErr

\* compareValues comparing the texts for == and != whatever the operands
compareValues_TextEquality(fieldName, targetValue, context, operator) ==
    LET field == ContextLookup(context, TrimSpace(fieldName))
        target == TrimSpace(targetValue)
        fieldNum == convertToFloat(field.v)
        targetNum == parseFloat(target)
        fieldStr == FormatValue(field.v)
        targetStr == Trim(target, {"\"", "'"})
    IN  IF ~field.ok THEN FALSE
        ELSE CASE operator = "==" -> fieldStr = targetStr
               [] operator = "!=" -> fieldStr # targetStr
               [] OTHER ->
                    /\ fieldNum.ok /\ targetNum.ok
                    /\ CASE operator = ">" -> RGt(fieldNum.v, targetNum.v)
                         [] operator = "<" -> RLt(fieldNum.v, targetNum.v)
                         [] operator = ">=" -> RGe(fieldNum.v, targetNum.v)
                         [] operator = "<=" -> RLe(fieldNum.v, targetNum.v)

\* compareValues reading a field that the context lacks as nil, so that it
\* differs from every value
compareValues_MissingIsNil(fieldName, targetValue, context, operator) ==
    LET field == ContextLookup(context, TrimSpace(fieldName))
        target == TrimSpace(targetValue)
        fieldNum == convertToFloat(field.v)
        targetNum == parseFloat(target)
        fieldStr == FormatValue(field.v)
        targetStr == Trim(target, {"\"", "'"})
    IN  IF fieldNum.ok /\ targetNum.ok
        THEN CASE operator = ">" -> RGt(fieldNum.v, targetNum.v)
               [] operator = "<" -> RLt(fieldNum.v, targetNum.v)
               [] operator = ">=" -> RGe(fieldNum.v, targetNum.v)
               [] operator = "<=" -> RLe(fieldNum.v, targetNum.v)
               [] operator = "==" -> fieldNum.v = targetNum.v
               [] operator = "!=" -> fieldNum.v # targetNum.v
        ELSE CASE operator = "==" -> fieldStr = targetStr
               [] operator = "!=" -> fieldStr # targetStr
               [] OTHER -> FALSE

\* compareValues
compareValues(fieldName, targetValue, context, operator) ==
    LET field == ContextLookup(context, TrimSpace(fieldName))
        target == TrimSpace(targetValue)
        fieldNum == convertToFloat(field.v)
        targetNum == parseFloat(target)
        fieldStr == FormatValue(field.v)
        targetStr == Trim(target, {"\"", "'"})
    IN  IF ~field.ok THEN FALSE
        ELSE IF fieldNum.ok /\ targetNum.ok
        THEN CASE operator = ">" -> RGt(fieldNum.v, targetNum.v)
               [] operator = "<" -> RLt(fieldNum.v, targetNum.v)
               [] operator = ">=" -> RGe(fieldNum.v, targetNum.v)
               [] operator = "<=" -> RLe(fieldNum.v, targetNum.v)
               [] operator = "==" -> fieldNum.v = targetNum.v
               [] operator = "!=" -> fieldNum.v # targetNum.v
        ELSE CASE operator = "==" -> fieldStr = targetStr
               [] operator = "!=" -> fieldStr # targetStr
               [] OTHER -> FALSE

\* the operators in the order evaluateCondition tries them
ConditionOperators ==
    << <<">", "=">>, <<"<", "=">>, <<"=", "=">>, <<"!", "=">>, <<">">>, <<"<">> >>

OperatorName(chars) ==
    CASE chars = <<">", "=">> -> ">="
      [] chars = <<"<", "=">> -> "<="
      [] chars = <<"=", "=">> -> "=="
      [] chars = <<"!", "=">> -> "!="
      [] chars = <<">">> -> ">"
      [] chars = <<"<">> -> "<"

\* the chain of strings.Split attempts, from the i-th operator on
RECURSIVE TryOperators(_, _, _)
TryOperators(condition, context, i) ==
    IF i > Len(ConditionOperators) THEN FALSE
    ELSE LET parts == Split(condition, ConditionOperators[i])
         IN  IF Len(parts) = 2
             THEN compareValues(parts[1], parts[2], context,
                                OperatorName(ConditionOperators[i]))
             ELSE TryOperators(condition, context, i + 1)

\* evaluateCondition
evaluateCondition(condition, context) ==
    LET trimmed == TrimSpace(condition)
    IN  IF trimmed = <<"t", "r", "u", "e">>
           \/ trimmed = <<"a", "l", "w", "a", "y", "s">>
        THEN TRUE
        ELSE TryOperators(trimmed, context, 1)

\* applyAction taking the value of apply_discount as an amount, not a percentage
applyAction_FlatDiscount(currentPrice, rule) ==
    CASE rule.Action = "apply_discount" -> RSub(currentPrice, rule.Value)
      [] rule.Action = "apply_markup" ->
            RAdd(currentPrice, RMul(currentPrice, RMul(rule.Value, Rat(1, 100))))
      [] rule.Action = "set_multiplier" -> RMul(currentPrice, rule.Value)
      [] rule.Action = "add_fixed_amount" -> RAdd(currentPrice, rule.Value)
      [] rule.Action = "set_price" -> rule.Value
      [] OTHER -> currentPrice

\* applyAction
applyAction(currentPrice, rule) ==
    CASE rule.Action = "apply_discount" ->
            RSub(currentPrice, RMul(currentPrice, RMul(rule.Value, Rat(1, 100))))
      [] rule.Action = "apply_markup" ->
            RAdd(currentPrice, RMul(currentPrice, RMul(rule.Value, Rat(1, 100))))
      [] rule.Action = "set_multiplier" -> RMul(currentPrice, rule.Value)
      [] rule.Action = "add_fixed_amount" -> RAdd(currentPrice, rule.Value)
      [] rule.Action = "set_price" -> rule.Value
      [] OTHER -> currentPrice

\* the PricingRule struct that Calculate parses out of a rule map
ParseRule(ruleMap) ==
    [Condition |-> GetStringOr(ruleMap, "condition", <<>>).v,
     Action |-> GetString(ruleMap, "action").v,
     Value |-> GetFloat64(ruleMap, "value").v,
     Priority |-> IF ruleMap.priority.k = "int"
                  THEN ruleMap.priority.num.n ELSE 0]

\* RuleExecutionOrder sorting the rules by descending priority (stable)
RuleExecutionOrder_ByPriority(rules) ==
    LET n == Len(rules)
        Prio(i) == IF rules[i].k = "map" /\ rules[i].priority.k = "int"
                   THEN rules[i].priority.num.n ELSE 0
        Before(i, j) == Prio(i) > Prio(j) \/ (Prio(i) = Prio(j) /\ i < j)
        order == CHOOSE f \in [1..n -> 1..n] :
                    \A i, j \in 1..n : i < j => Before(f[i], f[j])
    IN  [i \in 1..n |-> rules[order[i]]]

\* the order in which Calculate visits the rules: `for _, ruleData := range rules`
RuleExecutionOrder(rules) == rules

\* the rule loop recording an adjustment only for a rule that changes the price
RECURSIVE ApplyRulesFrom_NonZero(_, _, _, _)
ApplyRulesFrom_NonZero(rules, i, context, acc) ==
    IF i > Len(rules) THEN acc
    ELSE IF rules[i].k # "map"
    THEN ApplyRulesFrom_NonZero(rules, i + 1, context, acc)
    ELSE LET rule == ParseRule(rules[i])
             priceBeforeAction == acc.currentPrice
             priceAfter == applyAction(priceBeforeAction, rule)
         IN  IF \/ ~evaluateCondition(rule.Condition, context)
                \/ priceAfter = priceBeforeAction
             THEN ApplyRulesFrom_NonZero(rules, i + 1, context, acc)
             ELSE ApplyRulesFrom_NonZero(rules, i + 1, context,
                   [currentPrice |-> priceAfter,
                    adjustments |->
                        Append(acc.adjustments,
                            PriceAdjustment(rule.Action, rule.Condition,
                                rule.Value,
                                RSub(priceAfter, priceBeforeAction))),
                    rulesApplied |->
                        Append(acc.rulesApplied,
                            [condition |-> rule.Condition,
                             action |-> rule.Action, value |-> rule.Value,
                             result |-> RoundToTwoDecimals(priceAfter)])])

\* the rule loop of Calculate over rules[i..], from the running price, the
\* adjustments and the applied rules accumulated so far
RECURSIVE ApplyRulesFrom(_, _, _, _)
ApplyRulesFrom(rules, i, context, acc) ==
    IF i > Len(rules) THEN acc
    ELSE IF rules[i].k # "map" THEN ApplyRulesFrom(rules, i + 1, context, acc)
    ELSE LET rule == ParseRule(rules[i])
             priceBeforeAction == acc.currentPrice
             priceAfter == applyAction(priceBeforeAction, rule)
         IN  IF ~evaluateCondition(rule.Condition, context)
             THEN ApplyRulesFrom(rules, i + 1, context, acc)
             ELSE ApplyRulesFrom(rules, i + 1, context,
                   [currentPrice |-> priceAfter,
                    adjustments |->
                        Append(acc.adjustments,
                            PriceAdjustment(rule.Action, rule.Condition,
                                rule.Value,
                                RSub(priceAfter, priceBeforeAction))),
                    rulesApplied |->
                        Append(acc.rulesApplied,
                            [condition |-> rule.Condition,
                             action |-> rule.Action, value |-> rule.Value,
                             result |-> RoundToTwoDecimals(priceAfter)])])

RuleBasedCalculate(r, c) ==
    LET base == GetFloat64(r.Inputs, "base_price")
        basePrice == base.v
        context == r.Inputs
        rules == IF c["rules"].k = "list" THEN c["rules"].items ELSE <<>>
        loop == ApplyRulesFrom(RuleExecutionOrder(rules), 1, context,
                    [currentPrice |-> basePrice, adjustments |-> <<>>,
                     rulesApplied |-> <<>>])
        minPrice == GetFloat64(c, "min_price").v
        maxPrice == GetFloat64(c, "max_price").v
        finalPrice == ApplyBounds(loop.currentPrice, minPrice, maxPrice)
        details ==
            [base_price |-> basePrice, rules_applied |-> loop.rulesApplied,
             final_price |-> RoundToTwoDecimals(finalPrice)]
    IN  IF ~base.ok THEN Failed(ErrMissingRequiredField, <<"base">>)
        ELSE IF RLt(basePrice, Zero)
        THEN Failed(ErrInvalidFieldValue, <<"base">>)
        ELSE Computed(NewResponse(finalPrice, basePrice, getCurrency(r, c),
                                  loop.adjustments, details),
                      <<"base", "resolve", "rules", "bounds">>)

----------------------------------------------------------------------------
(* PricingEngine: the registry and the dispatch to the strategies *)

\* strategy.Validate(config) of the strategy registered under name
StrategyValidate(name, c) ==
    CASE name = StrategyTypeCostPlus -> CostPlusValidate(c)
      [] name = StrategyTypeGeographic -> GeographicValidate(c)
      [] name = StrategyTypeTimeBased -> TimeBasedValidate(c)
      [] name = StrategyTypeRuleBased -> RuleBasedValidate(c)

\* strategy.Calculate(req, config) of the strategy registered under name
StrategyCalculate(name, r, c) ==
    CASE name = StrategyTypeCostPlus -> CostPlusCalculate(r, c)
      [] name = StrategyTypeGeographic -> GeographicCalculate(r, c)
      [] name = StrategyTypeTimeBased -> TimeBasedCalculate(r, c)
      [] name = StrategyTypeRuleBased -> RuleBasedCalculate(r, c)

\* NewPricingEngine: the four strategies, registered under their names
NewPricingEngine == ValidStrategies

\* one entry of the log of the calls Engine.Calculate has made so far
CallEntry(op, e, stages) == [op |-> op, err |-> e, stages |-> stages]

----------------------------------------------------------------------------
(* The requests and configurations the callers of the model submit *)

NewRequest(strategy, inputs, requestedAt, ruleID) ==
    [Strategy |-> strategy, Inputs |-> inputs,
     RequestedAt |-> requestedAt, RuleID |-> ruleID]

\* the arguments of one call of Calculate
Submit(request, c) == req' = request /\ config' = c /\ submitted' = request

Monday1800 == TimeOf("Monday", 18, 0)
Saturday0930 == TimeOf("Saturday", 9, 30)
Monday2330 == TimeOf("Monday", 23, 30)

\* the values time.Now() returns
Clock == {Monday1800, Saturday0930}

\* (min_price, max_price) pairs of a configuration
BoundPairs ==
    {<<Absent, Absent>>, <<F64(R(50)), Absent>>, <<Absent, F64(R(120))>>,
     <<IntV(0), IntV(0)>>, <<F64(R(50)), F64(R(30))>>}

WithBounds(c, pair) == [c EXCEPT !.min_price = pair[1], !.max_price = pair[2]]

(* cost_plus *)
CostPlusInputs ==
    {[NoInputs EXCEPT !.base_cost = b, !.markup_value = mv,
                      !.markup_type = mt, !.tax_rate = t] :
        b \in {Absent, F64(R(-100)), IntV(100), F64(R(1)), F64(R(10))},
        mv \in {Absent, F64(R(25)), F64(R(-101)), IntV(10)},
        mt \in {Absent, Str("percentage"), Str("fixed"), Str("bogus")},
        t \in {Absent, F64(Zero), F64(Rat(2, 25))}}

CostPlusValidConfigs ==
    {WithBounds([NoConfig EXCEPT !.markup_type = mt, !.markup_value = mv,
                                 !.tax_rate = t], pair) :
        mt \in {Absent, Str("fixed")},
        mv \in {Absent, F64(R(50))},
        t \in {Absent, F64(Rat(1, 10))},
        pair \in BoundPairs}

CostPlusInvalidConfigs ==
    {[NoConfig EXCEPT !.markup_value = F64(R(-10))],
     [NoConfig EXCEPT !.tax_rate = F64(R(2))]}

CostPlusRequests ==
    \E i \in CostPlusInputs,
       c \in CostPlusValidConfigs \cup CostPlusInvalidConfigs :
        Submit(NewRequest(StrategyTypeCostPlus, i, ZeroTime, NilRuleID), c)

(* geographic *)
US_CA == <<"U", "S", "-", "C", "A">>
US == <<"U", "S">>

GeographicLocations ==
    {Absent, Str(<<>>), Str(US_CA), Str(<<"u", "s", "-", "c", "a">>),
     Str(<<" ", "U", "S", "-", "T", "X", " ">>), Str(US), Str(<<"Z", "Z">>),
     Str(<<"U", "S", "-", "C", "A", "-", "9">>)}

GeographicInputs ==
    {[NoInputs EXCEPT !.base_price = b, !.location = l] :
        b \in {Absent, F64(R(-100)), F64(R(100))},
        l \in GeographicLocations}

RegionMultiplier(key) ==
    CASE key = US_CA -> F64(Rat(23, 20))
      [] key = US -> F64(Rat(21, 20))
      [] key = DefaultKey -> F64(Rat(9, 10))

RegionalMultiplierMaps ==
    {MapV([key \in keys |-> RegionMultiplier(key)]) :
        keys \in SUBSET {US_CA, US, DefaultKey}}
    \cup {AbsentC, OtherC,
          MapV([key \in {US} |-> Str("")]),
          MapV([key \in {US} |-> F64(Zero)]),
          MapV([key \in {US} |-> Int64V(2)]),
          MapV([key \in {US, DefaultKey} |->
                    IF key = US THEN IntV(2) ELSE F32(Rat(1, 2))])}

CurrencyMaps ==
    {AbsentC,
     MapV([key \in {US_CA} |-> Str("EUR")]),
     MapV([key \in {US, DefaultKey} |->
               IF key = US THEN Str("GBP") ELSE Str("JPY")])}

GeographicConfigs ==
    {WithBounds([NoConfig EXCEPT !.regional_multipliers = m,
                                 !.currency_map = cm,
                                 !.default_currency = dc], pair) :
        m \in RegionalMultiplierMaps,
        cm \in CurrencyMaps,
        dc \in {Absent, Str("CAD")},
        pair \in {<<Absent, Absent>>, <<F64(R(110)), Absent>>}}

GeographicRequests ==
    \E i \in GeographicInputs, c \in GeographicConfigs :
        Submit(NewRequest(StrategyTypeGeographic, i, ZeroTime, "rule-1"), c)

\* the non-empty lists of at most n elements of S
ListsUpTo(S, n) == UNION {[1..len -> S] : len \in 1..n}

(* time_based *)
T(h1, h2, m1, m2) == <<h1, h2, ":", m1, m2>>

Window(days, startTime, endTime, multiplier) ==
    [k |-> "map", days |-> days, start_time |-> startTime,
     end_time |-> endTime, multiplier |-> multiplier]

\* a list element that is not an object
NotAWindow ==
    [k |-> "string", days |-> AbsentC, start_time |-> Absent,
     end_time |-> Absent, multiplier |-> Absent]

EveningWindow ==
    Window(ListV(<<Str("MONDAY"), Str("friday")>>),
           Str(T("1", "7", "0", "0")), Str(T("2", "0", "0", "0")),
           F64(Rat(6, 5)))
AlwaysWindow == Window(AbsentC, Absent, Absent, F64(Rat(6, 5)))
WeekendWindow == Window(ListV(<<Str("saturday"), Str("sunday")>>),
                        Absent, Absent, IntV(2))
NightWindow ==
    Window(ListV(<<>>), Str(T("2", "2", "0", "0")), Str(T("0", "2", "0", "0")),
           F64(R(2)))
MorningWindow ==
    Window(AbsentC, Str(<<"9", ":", "0", "0">>), Str(T("1", "8", "0", "0")),
           F64(Rat(3, 2)))
OpenEndedWindow ==
    Window(AbsentC, Str(T("2", "0", "0", "0")), Absent, F64(Rat(5, 4)))
TextMultiplierWindow == Window(AbsentC, Absent, Absent, Str(""))
RefundWindow == Window(AbsentC, Absent, Absent, F64(R(-1)))

WindowSet ==
    {EveningWindow, AlwaysWindow, WeekendWindow, NightWindow, MorningWindow,
     OpenEndedWindow, TextMultiplierWindow, RefundWindow}

TimeBasedInvalidWindowLists ==
    {AbsentC, OtherC, ListV(<<>>), ListV(<<NotAWindow>>),
     ListV(<<Window(AbsentC, Absent, Absent, Absent)>>),
     ListV(<<Window(AbsentC, Str(<<"2", "5", ":", "0", "0">>), Absent,
                    F64(R(2)))>>),
     ListV(<<Window(AbsentC, Absent, Str(<<"1", "8", "0", "0">>),
                    F64(R(2)))>>)}

\* configurations that vary the windows
TimeBasedWindowConfigs ==
    {[NoConfig EXCEPT !.time_windows = ListV(ws)] :
        ws \in ListsUpTo(WindowSet, MaxWindows)}
    \cup {[NoConfig EXCEPT !.time_windows = l] :
            l \in TimeBasedInvalidWindowLists}

\* configurations that vary the surge settings and the bounds
TimeBasedSurgeConfigs ==
    {WithBounds([NoConfig EXCEPT !.time_windows = ListV(ws),
                                 !.surge_enabled = se,
                                 !.base_surge_threshold = th], pair) :
        ws \in {<<AlwaysWindow>>, <<NightWindow>>},
        se \in {Absent, Bool(TRUE), Bool(FALSE)},
        th \in {Absent, F64(R(2)), IntV(0)},
        pair \in {<<Absent, Absent>>, <<Absent, F64(R(120))>>}}

\* inputs that vary the time of the request
TimeBasedClockInputs ==
    {[inputs |-> [NoInputs EXCEPT !.base_price = F64(R(100)),
                                  !.timestamp = ts],
      requestedAt |-> at] :
        ts \in {Absent, Str(TimestampText(Monday1800)),
                Str(TimestampText(Monday2330)), Str(BadTimestampText)},
        at \in {ZeroTime, Saturday0930}}

\* inputs that vary the base price and the demand
TimeBasedDemandInputs ==
    {[inputs |-> [NoInputs EXCEPT !.base_price = b, !.current_demand = d],
      requestedAt |-> Monday1800] :
        b \in {Absent, F64(R(-100)), F64(R(100))},
        d \in {Absent, F64(R(2)), IntV(6), F64(Rat(1, 2)), Str("")}}

TimeBasedRequests ==
    \/ \E i \in TimeBasedClockInputs, c \in TimeBasedWindowConfigs :
          Submit(NewRequest(StrategyTypeTimeBased, i.inputs, i.requestedAt,
                            NilRuleID), c)
    \/ \E i \in TimeBasedDemandInputs,
          c \in TimeBasedSurgeConfigs \cup
                {[NoConfig EXCEPT !.time_windows = l] :
                    l \in TimeBasedInvalidWindowLists} :
          Submit(NewRequest(StrategyTypeTimeBased, i.inputs, i.requestedAt,
                            NilRuleID), c)

(* rule_based *)
Quantity == InputKeyChars.quantity
Tier == InputKeyChars.tier
Gold == <<"g", "o", "l", "d">>

Rule(condition, action, value, priority) ==
    [k |-> "map", condition |-> condition, action |-> action,
     value |-> value, priority |-> priority]

\* a list element that is not an object
NotARule ==
    [k |-> "string", condition |-> Absent, action |-> Absent,
     value |-> Absent, priority |-> Absent]

BulkDiscount ==
    Rule(Str(Quantity \o <<" ", ">", " ", "1", "0">>),
         Str("apply_discount"), F64(R(15)), IntV(1))
BulkRebate ==
    Rule(Str(Quantity \o <<">", "=", "2", "0">>),
         Str("add_fixed_amount"), F64(R(-30)), IntV(5))
GoldMultiplier ==
    Rule(Str(Tier \o <<" ", "=", "=", " ", "\"">> \o Gold \o <<"\"">>),
         Str("set_multiplier"), F64(Rat(1, 2)), Absent)
ServiceFee ==
    Rule(Str(<<"t", "r", "u", "e">>), Str("apply_markup"), IntV(10), IntV(2))
FlatPrice ==
    Rule(Str(<<" ", "a", "l", "w", "a", "y", "s">>),
         Str("set_price"), F64(R(40)), IntV(9))
NotGoldSurcharge ==
    Rule(Str(Tier \o <<"!", "=", "g", "o", "l", "d">>),
         Str("add_fixed_amount"), F64(Zero), IntV(3))
SmallOrderMultiplier ==
    Rule(Str(Quantity \o <<" ", "<", " ", "1", "0">>),
         Str("set_multiplier"), IntV(2), F64(R(7)))
Clawback ==
    Rule(Str(<<"t", "r", "u", "e">>), Str("add_fixed_amount"),
         F64(R(-500)), IntV(4))

RuleSet ==
    {BulkDiscount, BulkRebate, GoldMultiplier, ServiceFee, FlatPrice,
     NotGoldSurcharge, SmallOrderMultiplier, Clawback}

RuleBasedInvalidRuleLists ==
    {AbsentC, OtherC, ListV(<<>>), ListV(<<NotARule>>),
     ListV(<<Rule(Absent, Str("set_price"), F64(R(1)), Absent)>>),
     ListV(<<Rule(Str(<<"t", "r", "u", "e">>), Str("halve"), F64(R(1)),
                  Absent)>>),
     ListV(<<Rule(Str(<<"t", "r", "u", "e">>), Str("set_price"), Str(""),
                  Absent)>>)}

RuleBasedConfigs ==
    {WithBounds([NoConfig EXCEPT !.rules = ListV(rs)], pair) :
        rs \in ListsUpTo(RuleSet, MaxRules),
        pair \in {<<Absent, Absent>>, <<F64(R(50)), F64(R(120))>>}}
    \cup {[NoConfig EXCEPT !.rules = l, !.tier = Str(Gold)] :
            l \in RuleBasedInvalidRuleLists}

RuleBasedInputs ==
    {[NoInputs EXCEPT !.base_price = F64(R(100)), !.quantity = q, !.tier = t] :
        q \in {Absent, F64(R(20)), IntV(5)},
        t \in {Absent, Str(Gold)}}
    \cup {[NoInputs EXCEPT !.quantity = F64(R(20))],
          [NoInputs EXCEPT !.base_price = IntV(-1), !.quantity = F64(R(20))]}

\* rules that compare a field with a value of the other kind, or with a
\* number written differently; each adds 1 to the price when it matches
Many == <<"m", "a", "n", "y">>
ComparisonRule(condition) ==
    Rule(Str(condition), Str("add_fixed_amount"), F64(One), Absent)
TierAtLeastFive == ComparisonRule(Tier \o <<" ", ">", "=", " ", "5">>)
QuantityNotMany == ComparisonRule(Quantity \o <<" ", "!", "=", " ">> \o Many)
QuantityBelowMany == ComparisonRule(Quantity \o <<" ", "<", " ">> \o Many)
QuantityIsTwenty ==
    ComparisonRule(Quantity \o <<" ", "=", "=", " ", "2", "0", ".", "0">>)
TierIsQuotedGold ==
    ComparisonRule(Tier \o <<"=", "=", "'">> \o Gold \o <<"'">>)
QuantityIsWhat == ComparisonRule(Quantity \o <<" ", "i", "s", " ", "2", "0">>)
QuantityAtMostFive == ComparisonRule(Quantity \o <<" ", "<", "=", " ", "5">>)

ComparisonRuleSet ==
    {TierAtLeastFive, QuantityNotMany, QuantityBelowMany, QuantityIsTwenty,
     TierIsQuotedGold, QuantityIsWhat, QuantityAtMostFive}

\* one comparison rule, or one rule of the rule set, against the inputs of a
\* request and the same fields in the configuration
ComparisonConfigs ==
    {[NoConfig EXCEPT !.rules = ListV(<<r>>), !.tier = t] :
        r \in ComparisonRuleSet \cup {NotGoldSurcharge, BulkRebate},
        t \in {Absent, Str(Gold)}}

ComparisonInputs ==
    {[NoInputs EXCEPT !.base_price = F64(R(100)), !.quantity = q, !.tier = t] :
        q \in {Absent, F64(R(20)), IntV(5)},
        t \in {Absent, Str(Gold), Str(<<"5">>)}}

RuleBasedRequests ==
    \/ \E i \in RuleBasedInputs, c \in RuleBasedConfigs :
          Submit(NewRequest(StrategyTypeRuleBased, i, ZeroTime, NilRuleID), c)
    \/ \E i \in ComparisonInputs, c \in ComparisonConfigs :
          Submit(NewRequest(StrategyTypeRuleBased, i, ZeroTime, NilRuleID), c)

UnknownStrategyRequests ==
    Submit(NewRequest("invalid_strategy", NoInputs, ZeroTime, NilRuleID),
           NoConfig)

\* the calls the callers of the engine make
Requests ==
    \/ CostPlusRequests
    \/ GeographicRequests
    \/ TimeBasedRequests
    \/ RuleBasedRequests
    \/ UnknownStrategyRequests

----------------------------------------------------------------------------
(* The callers of the engine: before any call *)

NoRequest == NewRequest("", NoInputs, ZeroTime, NilRuleID)

\* a second goroutine that uses the same engine, between two calls
IdlePeer ==
    [op |-> "none", pc |-> "idle", submitted |-> NoRequest, req |-> NoRequest,
     config |-> NoConfig, response |-> NilResponse, err |-> NoErr,
     names |-> {}]

\* dto.CalculatePriceRequest: the JSON body of POST /v1/pricing/calculate;
\* Context is one map, read as the inputs and as the configuration
CalculatePriceRequest(bound, strategyType, inputs, c) ==
    [bound |-> bound, StrategyType |-> strategyType,
     inputs |-> inputs, config |-> c]

NoBody == CalculatePriceRequest(FALSE, "", NoInputs, NoConfig)

\* (result, err) of h.engine.Calculate as the handler holds them
NoResult == [returned |-> FALSE, err |-> NoErr, FinalPrice |-> Zero]

\* PricingHandler.Calculate between two HTTP requests: n requests served,
\* nothing written to the gin.Context (status 0)
IdleHandler ==
    [pc |-> "idle", n |-> 0, user |-> "absent", body |-> NoBody,
     result |-> NoResult, status |-> 0, price |-> Zero]

----------------------------------------------------------------------------
(* The rate limiter of the API: before any request *)

\* the allow calls of a behaviour, and the passes of cleanup
MaxCalls == 3
MaxPasses == 1
\* the reading of the clock at which the model stops; the clock counts half
\* hours
MaxTime == 2
\* RATE_LIMIT_REQUESTS, and the burst that the server adds to it (100 and 50
\* by default)
Rate == 1
Burst == 1
\* RATE_LIMIT_WINDOW: one hour by default, two half hours
Interval == 2
\* cleanup removes a bucket whose lastRefill is more than 10 minutes old:
\* more than no half hour
StaleAfter == 0

\* the X-API-Key header, or the client IP, of the callers
Identifiers == {"key-1", "10.0.0.7"}

\* the goroutines that serve requests, and the one NewRateLimiter starts
Goroutines == {"request-1", "request-2"}
CleanupGoroutine == "cleanup"
\* a mutex that no goroutine holds; a held mutex is its holder
Unlocked == "unlocked"
\* rl.tokens[identifier] does not exist
NoBucket == 0

\* &bucket{tokens: ..., lastRefill: ...}
NewBucket(tokens, lastRefill) ==
    [tokens |-> tokens, lastRefill |-> lastRefill, mu |-> Unlocked]

\* NewRateLimiter(rate, interval, capacity); buckets holds the bucket objects
\* that rl.tokens and the goroutines point to
NewRateLimiter(rate, interval, capacity) ==
    [tokens |-> [id \in Identifiers |-> NoBucket], mu |-> Unlocked,
     rate |-> rate, interval |-> interval, capacity |-> capacity,
     buckets |-> <<>>]

\* a goroutine that is not in allow
IdleAllow ==
    [pc |-> "idle", identifier |-> "", b |-> NoBucket, exists |-> FALSE,
     tokens |-> 0, allowed |-> FALSE]

\* the cleanup goroutine between two ticks
WaitingCleanup ==
    [pc |-> "waiting", now |-> 0, range |-> {}, id |-> "", b |-> NoBucket]

----------------------------------------------------------------------------
(* Engine.Calculate, one action per step of its body *)

Init ==
    /\ pc = "idle"
    /\ req = NewRequest("", NoInputs, ZeroTime, NilRuleID)
    /\ config = NoConfig
    /\ response = NilResponse
    /\ err = NoErr
    /\ calls = <<>>
    /\ strategies = NewPricingEngine
    /\ submitted = NoRequest
    /\ peer = IdlePeer
    /\ handler = IdleHandler
    /\ logger = <<>>
    /\ rl = NewRateLimiter(Rate, Interval, Rate + Burst)
    /\ goroutines = [allow |-> [g \in Goroutines |-> IdleAllow],
                     cleanup |-> WaitingCleanup,
                     calls |-> 0, passes |-> 0]
    /\ wallClock = 0
    /\ granted = [id \in Identifiers |-> 0]

\* a caller invokes Calculate(req, config)
Call ==
    /\ pc = "idle"
    /\ Requests
    /\ response' = NilResponse
    /\ err' = NoErr
    /\ calls' = <<>>
    /\ pc' = "check_strategy"
    /\ UNCHANGED <<strategies, peer, handler, logger, limiterVars>>

\* domain.ValidateStrategy(req.Strategy), then the registry lookup
CheckStrategy ==
    /\ pc = "check_strategy"
    /\ LET e == ValidateStrategy(req.Strategy)
       IN  /\ calls' = Append(calls, CallEntry("ValidateStrategy", e, <<>>))
           /\ IF e # NoErr
              THEN err' = e /\ pc' = "done"
              ELSE IF req.Strategy \notin strategies
              THEN err' = ErrUnwrapped /\ pc' = "done"
              ELSE err' = NoErr /\ pc' = "validate"
    /\ UNCHANGED <<req, config, response, strategies,
                   submitted, peer, handler, logger, limiterVars>>

\* ValidateConfigStep going on to the calculation after a rejected config
ValidateConfigStep_IgnoreError ==
    /\ pc = "validate"
    /\ LET e == StrategyValidate(req.Strategy, config)
       IN  calls' = Append(calls, CallEntry("Validate", e, <<>>))
    /\ err' = NoErr
    /\ pc' = "stamp"
    /\ UNCHANGED <<req, config, response, strategies,
                   submitted, peer, handler, logger, limiterVars>>

\* strategy.Validate(config)
ValidateConfigStep ==
    /\ pc = "validate"
    /\ LET e == StrategyValidate(req.Strategy, config)
       IN  /\ calls' = Append(calls, CallEntry("Validate", e, <<>>))
           /\ IF e # NoErr
              THEN err' = e /\ pc' = "done"
              ELSE err' = NoErr /\ pc' = "stamp"
    /\ UNCHANGED <<req, config, response, strategies,
                   submitted, peer, handler, logger, limiterVars>>

\* StampRequest overwriting a RequestedAt the caller has set
StampRequest_Always ==
    /\ pc = "stamp"
    /\ \E now \in Clock : req' = [req EXCEPT !.RequestedAt = now]
    /\ pc' = "calculate"
    /\ UNCHANGED <<config, response, err, calls, strategies,
                   submitted, peer, handler, logger, limiterVars>>

\* req.RequestedAt = time.Now() when it is zero
StampRequest ==
    /\ pc = "stamp"
    /\ IF req.RequestedAt.zero
       THEN \E now \in Clock : req' = [req EXCEPT !.RequestedAt = now]
       ELSE req' = req
    /\ pc' = "calculate"
    /\ UNCHANGED <<config, response, err, calls, strategies,
                   submitted, peer, handler, logger, limiterVars>>

\* strategy.Calculate(req, config)
CalculateStep ==
    /\ pc = "calculate"
    /\ LET result == StrategyCalculate(req.Strategy, req, config)
       IN  /\ calls' = Append(calls,
                          CallEntry("Calculate", result.err, result.stages))
           /\ IF result.err # NoErr
              THEN /\ err' = result.err
                   /\ response' = NilResponse
                   /\ pc' = "done"
              ELSE /\ err' = NoErr
                   /\ response' = result.resp
                   /\ pc' = "finish"
    /\ UNCHANGED <<req, config, strategies,
                   submitted, peer, handler, logger, limiterVars>>

\* Finish without the check of the rounded price
Finish_NoNegativeCheck ==
    /\ pc = "finish"
    /\ \E now \in Clock :
        /\ response' = [response EXCEPT
                            !.Strategy = req.Strategy,
                            !.CalculatedAt = now,
                            !.AppliedRuleID = req.RuleID,
                            !.FinalPrice = RoundToTwoDecimals(response.FinalPrice)]
        /\ err' = NoErr
    /\ pc' = "done"
    /\ UNCHANGED <<req, config, calls, strategies,
                   submitted, peer, handler, logger, limiterVars>>

\* Finish returning the response together with ErrNegativePrice
Finish_KeepResponse ==
    /\ pc = "finish"
    /\ \E now \in Clock :
        LET rounded == RoundToTwoDecimals(response.FinalPrice)
        IN  /\ response' = [response EXCEPT !.Strategy = req.Strategy,
                                            !.CalculatedAt = now,
                                            !.AppliedRuleID = req.RuleID,
                                            !.FinalPrice = rounded]
            /\ err' = IF RLt(rounded, Zero) THEN ErrNegativePrice ELSE NoErr
    /\ pc' = "done"
    /\ UNCHANGED <<req, config, calls, strategies,
                   submitted, peer, handler, logger, limiterVars>>

\* response metadata, rounding and the check of the final price
Finish ==
    /\ pc = "finish"
    /\ \E now \in Clock :
        LET rounded == RoundToTwoDecimals(response.FinalPrice)
        IN  IF RLt(rounded, Zero)
            THEN response' = NilResponse /\ err' = ErrNegativePrice
            ELSE /\ response' = [response EXCEPT !.Strategy = req.Strategy,
                                                 !.CalculatedAt = now,
                                                 !.AppliedRuleID = req.RuleID,
                                                 !.FinalPrice = rounded]
                 /\ err' = NoErr
    /\ pc' = "done"
    /\ UNCHANGED <<req, config, calls, strategies,
                   submitted, peer, handler, logger, limiterVars>>

\* Calculate has returned (response, err) to its caller
Return ==
    /\ pc = "done"
    /\ pc' = "idle"
    /\ req' = NewRequest("", NoInputs, ZeroTime, NilRuleID)
    /\ config' = NoConfig
    /\ response' = NilResponse
    /\ err' = NoErr
    /\ calls' = <<>>
    /\ submitted' = NoRequest
    /\ UNCHANGED <<strategies, peer, handler, logger, limiterVars>>

Next ==
    \/ Call
    \/ CheckStrategy
    \/ ValidateConfigStep
    \/ StampRequest
    \/ CalculateStep
    \/ Finish
    \/ Return

Spec == Init /\ [][Next]_vars

----------------------------------------------------------------------------
(* The other entry points of the engine *)

\* GetStrategy: the registry lookup and its error
GetStrategy(registry, name) ==
    IF name \in registry THEN [found |-> TRUE, err |-> NoErr]
    ELSE [found |-> FALSE, err |-> ErrUnwrapped]

\* ListStrategies: the names of the registered strategies
ListStrategies(registry) == registry

\* ValidateConfig: GetStrategy, then strategy.Validate(config)
ValidateConfig(registry, name, c) ==
    IF ~GetStrategy(registry, name).found
    THEN GetStrategy(registry, name).err
    ELSE StrategyValidate(name, c)

----------------------------------------------------------------------------
(* Two goroutines on one engine: the caller above and a peer *)

\* the frame of a call Calculate(req, config): arguments, position, results
CalculateFrame(request, c) ==
    [IdlePeer EXCEPT !.op = "Calculate", !.pc = "check_strategy",
                     !.submitted = request, !.req = request, !.config = c]

\* the frame once strategy.Calculate has returned result
Calculated(f, result) ==
    IF result.err # NoErr
    THEN [f EXCEPT !.err = result.err, !.pc = "done"]
    ELSE [f EXCEPT !.response = result.resp, !.pc = "finish"]

\* one step of the body of Calculate on a frame; registry is the map as the
\* step reads it and now the value of time.Now()
CalculateFrameStep(f, registry, now) ==
    CASE f.pc = "check_strategy" ->
            LET e == ValidateStrategy(f.req.Strategy)
            IN  IF e # NoErr THEN [f EXCEPT !.err = e, !.pc = "done"]
                ELSE IF ~GetStrategy(registry, f.req.Strategy).found
                THEN [f EXCEPT !.err = ErrUnwrapped, !.pc = "done"]
                ELSE [f EXCEPT !.pc = "validate"]
      [] f.pc = "validate" ->
            LET e == StrategyValidate(f.req.Strategy, f.config)
            IN  IF e # NoErr THEN [f EXCEPT !.err = e, !.pc = "done"]
                ELSE [f EXCEPT !.pc = "stamp"]
      [] f.pc = "stamp" ->
            [f EXCEPT !.req.RequestedAt = IF @.zero THEN now ELSE @,
                      !.pc = "calculate"]
      [] f.pc = "calculate" ->
            Calculated(f, StrategyCalculate(f.req.Strategy, f.req, f.config))
      [] f.pc = "finish" ->
            LET rounded == RoundToTwoDecimals(f.response.FinalPrice)
            IN  IF RLt(rounded, Zero)
                THEN [f EXCEPT !.response = NilResponse,
                               !.err = ErrNegativePrice, !.pc = "done"]
                ELSE [f EXCEPT !.response.Strategy = f.req.Strategy,
                               !.response.CalculatedAt = now,
                               !.response.AppliedRuleID = f.req.RuleID,
                               !.response.FinalPrice = rounded,
                               !.pc = "done"]
      [] OTHER -> f

Arguments(request, c) == [request |-> request, config |-> c]

\* the calls the two goroutines make
ConcurrentArguments ==
    {Arguments(NewRequest(StrategyTypeCostPlus,
                          [NoInputs EXCEPT !.base_cost = IntV(100),
                                           !.markup_value = F64(R(25))],
                          ZeroTime, NilRuleID),
               NoConfig),
     Arguments(NewRequest(StrategyTypeCostPlus,
                          [NoInputs EXCEPT !.markup_value = F64(R(25))],
                          ZeroTime, NilRuleID),
               NoConfig),
     Arguments(NewRequest(StrategyTypeCostPlus,
                          [NoInputs EXCEPT !.base_cost = IntV(100)],
                          ZeroTime, NilRuleID),
               [NoConfig EXCEPT !.markup_value = F64(R(-10))]),
     Arguments(NewRequest(StrategyTypeGeographic,
                          [NoInputs EXCEPT !.base_price = F64(R(100)),
                                           !.location = Str(US_CA)],
                          ZeroTime, "rule-1"),
               [NoConfig EXCEPT !.regional_multipliers =
                    MapV([key \in {US_CA, US, DefaultKey} |->
                              RegionMultiplier(key)])]),
     Arguments(NewRequest(StrategyTypeTimeBased,
                          [NoInputs EXCEPT !.base_price = F64(R(100))],
                          ZeroTime, NilRuleID),
               [NoConfig EXCEPT !.time_windows =
                    ListV(<<EveningWindow, WeekendWindow>>)]),
     Arguments(NewRequest(StrategyTypeTimeBased,
                          [NoInputs EXCEPT !.base_price = F64(R(100))],
                          Saturday0930, NilRuleID),
               [NoConfig EXCEPT !.time_windows =
                    ListV(<<EveningWindow, WeekendWindow>>)]),
     Arguments(NewRequest(StrategyTypeTimeBased,
                          [NoInputs EXCEPT
                               !.base_price = F64(R(100)),
                               !.timestamp = Str(TimestampText(Monday1800))],
                          ZeroTime, NilRuleID),
               [NoConfig EXCEPT !.time_windows =
                    ListV(<<EveningWindow, WeekendWindow>>)]),
     Arguments(NewRequest(StrategyTypeTimeBased,
                          [NoInputs EXCEPT !.base_price = F64(R(100))],
                          ZeroTime, NilRuleID),
               [NoConfig EXCEPT !.time_windows = ListV(<<>>)]),
     Arguments(NewRequest(StrategyTypeRuleBased,
                          [NoInputs EXCEPT !.base_price = F64(R(100)),
                                           !.quantity = F64(R(20))],
                          ZeroTime, NilRuleID),
               [NoConfig EXCEPT !.rules =
                    ListV(<<BulkDiscount, ServiceFee>>)]),
     Arguments(NewRequest(StrategyTypeRuleBased,
                          [NoInputs EXCEPT !.base_price = F64(R(100))],
                          ZeroTime, NilRuleID),
               [NoConfig EXCEPT !.rules = ListV(<<Clawback>>)]),
     Arguments(NewRequest("invalid_strategy", NoInputs, ZeroTime, NilRuleID),
               NoConfig)}

\* the caller invokes Calculate(req, config)
ConcurrentCall ==
    /\ pc = "idle"
    /\ \E a \in ConcurrentArguments : Submit(a.request, a.config)
    /\ response' = NilResponse
    /\ err' = NoErr
    /\ calls' = <<>>
    /\ pc' = "check_strategy"
    /\ UNCHANGED <<strategies, peer, handler, logger, limiterVars>>

\* the peer invokes Calculate(req, config)
PeerCalculate ==
    /\ peer.pc = "idle"
    /\ \E a \in ConcurrentArguments :
        peer' = CalculateFrame(a.request, a.config)
    /\ UNCHANGED <<pc, req, config, response, err, calls, strategies,
                   submitted, handler, logger, limiterVars>>

\* the peer executes the next step of its call of Calculate
PeerCalculateStep ==
    /\ peer.op = "Calculate"
    /\ peer.pc \notin {"idle", "done"}
    /\ \E now \in Clock : peer' = CalculateFrameStep(peer, strategies, now)
    /\ UNCHANGED <<pc, req, config, response, err, calls, strategies,
                   submitted, handler, logger, limiterVars>>

\* the peer calls ValidateConfig(strategyName, config)
PeerValidateConfig ==
    /\ peer.pc = "idle"
    /\ \E a \in ConcurrentArguments :
        peer' = [IdlePeer EXCEPT
                    !.op = "ValidateConfig", !.pc = "done",
                    !.submitted = a.request, !.config = a.config,
                    !.err = ValidateConfig(strategies, a.request.Strategy,
                                           a.config)]
    /\ UNCHANGED <<pc, req, config, response, err, calls, strategies,
                   submitted, handler, logger, limiterVars>>

\* the peer calls GetStrategy(name)
PeerGetStrategy ==
    /\ peer.pc = "idle"
    /\ \E name \in ValidStrategies \cup {"invalid_strategy"} :
        peer' = [IdlePeer EXCEPT
                    !.op = "GetStrategy", !.pc = "done",
                    !.names = IF GetStrategy(strategies, name).found
                              THEN {name} ELSE {},
                    !.err = GetStrategy(strategies, name).err]
    /\ UNCHANGED <<pc, req, config, response, err, calls, strategies,
                   submitted, handler, logger, limiterVars>>

\* ListStrategies deleting the entries it has ranged over
PeerListStrategies_Unregister ==
    /\ peer.pc = "idle"
    /\ peer' = [IdlePeer EXCEPT !.op = "ListStrategies", !.pc = "done",
                                !.names = ListStrategies(strategies)]
    /\ strategies' = {}
    /\ UNCHANGED <<pc, req, config, response, err, calls,
                   submitted, handler, logger, limiterVars>>

\* the peer calls ListStrategies()
PeerListStrategies ==
    /\ peer.pc = "idle"
    /\ peer' = [IdlePeer EXCEPT !.op = "ListStrategies", !.pc = "done",
                                !.names = ListStrategies(strategies)]
    /\ UNCHANGED <<pc, req, config, response, err, calls, strategies,
                   submitted, handler, logger, limiterVars>>

\* the peer's call has returned
PeerReturn ==
    /\ peer.pc = "done"
    /\ peer' = IdlePeer
    /\ UNCHANGED <<pc, req, config, response, err, calls, strategies,
                   submitted, handler, logger, limiterVars>>

NextConcurrent ==
    \/ ConcurrentCall
    \/ CheckStrategy
    \/ ValidateConfigStep
    \/ StampRequest
    \/ CalculateStep
    \/ Finish
    \/ Return
    \/ PeerCalculate
    \/ PeerCalculateStep
    \/ PeerValidateConfig
    \/ PeerGetStrategy
    \/ PeerListStrategies
    \/ PeerReturn

SpecConcurrent == Init /\ [][NextConcurrent]_vars

----------------------------------------------------------------------------
(* PricingHandler.Calculate: POST /v1/pricing/calculate, and the goroutines
   that write the audit log *)

MaxRequests == 2

StatusOK == "200"
StatusBadRequest == "400"
StatusUnauthorized == "401"
StatusInternalServerError == "500"

\* the bodies the clients post
HandlerBodies ==
    {NoBody,
     CalculatePriceRequest(TRUE, StrategyTypeCostPlus,
         [NoInputs EXCEPT !.base_cost = F64(R(100)),
                          !.markup_value = F64(R(25))],
         [NoConfig EXCEPT !.markup_value = F64(R(25))]),
     CalculatePriceRequest(TRUE, StrategyTypeCostPlus,
         [NoInputs EXCEPT !.markup_value = F64(R(25))],
         [NoConfig EXCEPT !.markup_value = F64(R(25))]),
     CalculatePriceRequest(TRUE, StrategyTypeTimeBased,
         [NoInputs EXCEPT !.base_price = F64(R(100))],
         [NoConfig EXCEPT !.time_windows =
              ListV(<<EveningWindow, WeekendWindow>>)]),
     CalculatePriceRequest(TRUE, StrategyTypeRuleBased,
         [NoInputs EXCEPT !.base_price = F64(R(100))], NoConfig),
     CalculatePriceRequest(TRUE, "invalid_strategy", NoInputs, NoConfig)}

\* the response written to the gin.Context, and the return of the handler
Respond(status, price) ==
    handler' = [handler EXCEPT !.status = status, !.price = price,
                               !.pc = "sent"]

\* a client posts a request; user is what the auth middleware left in the
\* context under "user_id"
HandlerReceive ==
    /\ handler.pc = "idle"
    /\ handler.n < MaxRequests
    /\ \E user \in {"uuid", "absent", "other"}, body \in HandlerBodies :
        handler' = [IdleHandler EXCEPT !.pc = "user", !.n = handler.n + 1,
                                       !.user = user, !.body = body]
    /\ UNCHANGED <<pc, req, config, response, err, calls, strategies,
                   submitted, peer, logger, limiterVars>>

\* MustGetUserID
HandlerGetUserID ==
    /\ handler.pc = "user"
    /\ CASE handler.user = "absent" -> Respond(StatusUnauthorized, Zero)
         [] handler.user = "other" -> Respond(StatusInternalServerError, Zero)
         [] OTHER -> handler' = [handler EXCEPT !.pc = "bind"]
    /\ UNCHANGED <<pc, req, config, response, err, calls, strategies,
                   submitted, peer, logger, limiterVars>>

\* BindJSON
HandlerBindJSON ==
    /\ handler.pc = "bind"
    /\ IF ~handler.body.bound THEN Respond(StatusBadRequest, Zero)
       ELSE handler' = [handler EXCEPT !.pc = "strategy"]
    /\ UNCHANGED <<pc, req, config, response, err, calls, strategies,
                   submitted, peer, logger, limiterVars>>

\* validStrategies[req.StrategyType]
HandlerValidateStrategy ==
    /\ handler.pc = "strategy"
    /\ IF handler.body.StrategyType \notin
            {"cost_plus", "geographic", "time_based", "rule_based"}
       THEN Respond(StatusBadRequest, Zero)
       ELSE handler' = [handler EXCEPT !.pc = "engine"]
    /\ UNCHANGED <<pc, req, config, response, err, calls, strategies,
                   submitted, peer, logger, limiterVars>>

\* h.engine.Calculate(ctx, pricingReq): HandlerPricingEngine passes the
\* Context as the inputs of a new request and as the config
HandlerCallEngine ==
    /\ handler.pc = "engine"
    /\ pc = "idle"
    /\ Submit(NewRequest(handler.body.StrategyType, handler.body.inputs,
                         ZeroTime, NilRuleID),
              handler.body.config)
    /\ response' = NilResponse
    /\ err' = NoErr
    /\ calls' = <<>>
    /\ pc' = "check_strategy"
    /\ handler' = [handler EXCEPT !.pc = "calculating"]
    /\ UNCHANGED <<strategies, peer, logger, limiterVars>>

\* the engine has returned: BadRequest on an error, else on to the log
HandlerEngineReturn ==
    /\ handler.pc = "calculating"
    /\ pc = "done"
    /\ IF err # NoErr
       THEN handler' = [handler EXCEPT
                            !.result = [returned |-> TRUE, err |-> err,
                                        FinalPrice |-> Zero],
                            !.status = StatusBadRequest, !.pc = "sent"]
       ELSE handler' = [handler EXCEPT
                            !.result = [returned |-> TRUE, err |-> NoErr,
                                        FinalPrice |-> response.FinalPrice],
                            !.pc = "log"]
    /\ pc' = "idle"
    /\ req' = NoRequest
    /\ config' = NoConfig
    /\ response' = NilResponse
    /\ err' = NoErr
    /\ calls' = <<>>
    /\ submitted' = NoRequest
    /\ UNCHANGED <<strategies, peer, logger, limiterVars>>

\* one write of the audit log: the request it belongs to, the final_price
\* of its outputData and how far h.logger.Log has got
LogWrite(n, price) == [request |-> n, status |-> "running", price |-> price]

\* the log write of request n is in the state status
LogIs(n, status) ==
    \E i \in 1..Len(logger) :
        logger[i].request = n /\ logger[i].status = status

\* go func() { h.logger.Log(bgCtx, ...) }()
HandlerStartLog ==
    /\ handler.pc = "log"
    /\ logger' = Append(logger, LogWrite(handler.n, handler.result.FinalPrice))
    /\ handler' = [handler EXCEPT !.pc = "respond"]
    /\ UNCHANGED <<pc, req, config, response, err, calls, strategies,
                   submitted, peer, limiterVars>>

\* the response held back until h.logger.Log has returned, and failed when
\* the write failed
HandlerSuccess_AwaitLog ==
    /\ handler.pc = "respond"
    /\ ~LogIs(handler.n, "running")
    /\ IF LogIs(handler.n, "failed")
       THEN Respond(StatusInternalServerError, Zero)
       ELSE Respond(StatusOK, handler.result.FinalPrice)
    /\ UNCHANGED <<pc, req, config, response, err, calls, strategies,
                   submitted, peer, logger, limiterVars>>

\* Success(c, response)
HandlerSuccess ==
    /\ handler.pc = "respond"
    /\ Respond(StatusOK, handler.result.FinalPrice)
    /\ UNCHANGED <<pc, req, config, response, err, calls, strategies,
                   submitted, peer, logger, limiterVars>>

\* the handler has returned; the next request may come
HandlerDone ==
    /\ handler.pc = "sent"
    /\ handler' = [IdleHandler EXCEPT !.n = handler.n]
    /\ UNCHANGED <<pc, req, config, response, err, calls, strategies,
                   submitted, peer, logger, limiterVars>>

\* h.logger.Log returns nil in its goroutine
LogWriteSucceeds ==
    /\ \E i \in 1..Len(logger) :
        /\ logger[i].status = "running"
        /\ logger' = [logger EXCEPT ![i].status = "ok"]
    /\ UNCHANGED <<pc, req, config, response, err, calls, strategies,
                   submitted, peer, handler, limiterVars>>

\* h.logger.Log returns an error in its goroutine; the error is dropped
LogWriteFails ==
    /\ \E i \in 1..Len(logger) :
        /\ logger[i].status = "running"
        /\ logger' = [logger EXCEPT ![i].status = "failed"]
    /\ UNCHANGED <<pc, req, config, response, err, calls, strategies,
                   submitted, peer, handler, limiterVars>>

NextHandler ==
    \/ HandlerReceive
    \/ HandlerGetUserID
    \/ HandlerBindJSON
    \/ HandlerValidateStrategy
    \/ HandlerCallEngine
    \/ CheckStrategy
    \/ ValidateConfigStep
    \/ StampRequest
    \/ CalculateStep
    \/ Finish
    \/ HandlerEngineReturn
    \/ HandlerStartLog
    \/ HandlerSuccess
    \/ HandlerDone
    \/ LogWriteSucceeds
    \/ LogWriteFails

\* the handler's own statements; at most one of them is enabled at a time
HandlerStep ==
    \/ HandlerGetUserID
    \/ HandlerBindJSON
    \/ HandlerValidateStrategy
    \/ HandlerCallEngine
    \/ HandlerEngineReturn
    \/ HandlerStartLog
    \/ HandlerSuccess
    \/ HandlerDone

\* the goroutine that serves a request always gets to run its next
\* statement; nothing is assumed of the log writes, which may never return
HandlerProgress == WF_vars(HandlerStep)

SpecHandler == Init /\ [][NextHandler]_vars /\ HandlerProgress

----------------------------------------------------------------------------
(* RateLimiter: concurrent allow calls and the cleanup goroutine *)

engineVars ==
    <<pc, req, config, response, err, calls, strategies,
      submitted, peer, handler, logger>>

Frame(g) == goroutines.allow[g]
Bucket(b) == rl.buckets[b]

\* time.Now(): the clock never goes back, and any number of half hours may
\* have passed since a goroutine last read it
TimeNow == wallClock..MaxTime

\* the Middleware calls rl.allow(identifier), for a caller of identifiers
AllowCall(g, identifiers) ==
    /\ Frame(g).pc = "idle"
    /\ goroutines.calls < MaxCalls
    /\ \E identifier \in identifiers :
        goroutines' =
            [goroutines EXCEPT !.allow[g] =
                                  [IdleAllow EXCEPT !.pc = "lock",
                                                    !.identifier = identifier],
                               !.calls = @ + 1]
    /\ UNCHANGED <<rl, wallClock, granted, engineVars>>

\* rl.mu.Lock()
AllowLock(g) ==
    /\ Frame(g).pc = "lock"
    /\ rl.mu = Unlocked
    /\ rl' = [rl EXCEPT !.mu = g]
    /\ goroutines' = [goroutines EXCEPT !.allow[g].pc = "lookup"]
    /\ UNCHANGED <<wallClock, granted, engineVars>>

\* AllowLookup going on without rl.mu.Unlock()
AllowLookup_KeepLock(g) ==
    /\ Frame(g).pc = "lookup"
    /\ LET identifier == Frame(g).identifier
           exists == rl.tokens[identifier] # NoBucket
           b == IF exists THEN rl.tokens[identifier]
                ELSE Len(rl.buckets) + 1
       IN  /\ \E now \in IF exists THEN {wallClock} ELSE TimeNow :
            /\ wallClock' = now
            /\ rl' = IF exists THEN rl
                     ELSE [rl EXCEPT
                            !.buckets = Append(@, NewBucket(rl.capacity,
                                                            now)),
                            !.tokens[identifier] = b]
           /\ goroutines' = [goroutines EXCEPT !.allow[g].pc = "lock_bucket",
                                               !.allow[g].b = b,
                                               !.allow[g].exists = exists,
                                               !.allow[g].tokens =
                                                    rl'.buckets[b].tokens]
    /\ UNCHANGED <<granted, engineVars>>

\* b, exists := rl.tokens[identifier]; a missing bucket is created with
\* capacity tokens and stored; rl.mu.Unlock()
AllowLookup(g) ==
    /\ Frame(g).pc = "lookup"
    /\ LET identifier == Frame(g).identifier
           exists == rl.tokens[identifier] # NoBucket
           b == IF exists THEN rl.tokens[identifier]
                ELSE Len(rl.buckets) + 1
       IN  /\ \E now \in IF exists THEN {wallClock} ELSE TimeNow :
            /\ wallClock' = now
            /\ rl' = IF exists THEN [rl EXCEPT !.mu = Unlocked]
                     ELSE [rl EXCEPT
                            !.buckets = Append(@, NewBucket(rl.capacity,
                                                            now)),
                            !.tokens[identifier] = b,
                            !.mu = Unlocked]
           /\ goroutines' = [goroutines EXCEPT !.allow[g].pc = "lock_bucket",
                                               !.allow[g].b = b,
                                               !.allow[g].exists = exists,
                                               !.allow[g].tokens =
                                                    rl'.buckets[b].tokens]
    /\ UNCHANGED <<granted, engineVars>>

\* b.mu.Lock()
AllowLockBucket(g) ==
    /\ Frame(g).pc = "lock_bucket"
    /\ Bucket(Frame(g).b).mu = Unlocked
    /\ rl' = [rl EXCEPT !.buckets[Frame(g).b].mu = g]
    /\ goroutines' = [goroutines EXCEPT !.allow[g].pc = "refill"]
    /\ UNCHANGED <<wallClock, granted, engineVars>>

\* tokensToAdd := int(elapsed / rl.interval * time.Duration(rl.rate))
TokensToAdd(now, lastRefill) ==
    ((now - lastRefill) \div rl.interval) * rl.rate

\* the bucket after the refill of allow: tokens are added, up to the
\* capacity, and lastRefill moves, only when tokensToAdd > 0
Refilled(bucket, now) ==
    LET tokensToAdd == TokensToAdd(now, bucket.lastRefill)
        tokens == bucket.tokens + tokensToAdd
    IN  IF tokensToAdd > 0
        THEN [bucket EXCEPT !.tokens = IF tokens > rl.capacity
                                       THEN rl.capacity ELSE tokens,
                            !.lastRefill = now]
        ELSE bucket

\* the rest of allow with b.mu held: the refill, then
\* if b.tokens > 0 { b.tokens--; return true }; return false.  The frame keeps
\* what the call saw; granted counts the requests of the identifier that
\* were allowed since a bucket of the identifier was last refilled
AllowRefill(g) ==
    /\ Frame(g).pc = "refill"
    /\ \E now \in TimeNow :
        LET b == Frame(g).b
            identifier == Frame(g).identifier
            tokensToAdd == TokensToAdd(now, Bucket(b).lastRefill)
            refilled == Refilled(Bucket(b), now)
            allowed == refilled.tokens > 0
        IN  /\ wallClock' = now
            /\ rl' = [rl EXCEPT !.buckets[b] =
                        IF allowed
                        THEN [refilled EXCEPT !.tokens = @ - 1]
                        ELSE refilled]
            /\ granted' = [granted EXCEPT ![identifier] =
                            (IF tokensToAdd > 0 THEN 0 ELSE @)
                            + (IF allowed THEN 1 ELSE 0)]
            /\ goroutines' = [goroutines EXCEPT
                                !.allow[g].pc = "return",
                                !.allow[g].tokens = refilled.tokens,
                                !.allow[g].allowed = allowed]
    /\ UNCHANGED engineVars

\* defer b.mu.Unlock(), and allow returns
AllowReturn(g) ==
    /\ Frame(g).pc = "return"
    /\ rl' = [rl EXCEPT !.buckets[Frame(g).b].mu = Unlocked]
    /\ goroutines' = [goroutines EXCEPT !.allow[g] = IdleAllow]
    /\ UNCHANGED <<wallClock, granted, engineVars>>

\* for range ticker.C: the ticker fires
CleanupTick ==
    /\ goroutines.cleanup.pc = "waiting"
    /\ goroutines.passes < MaxPasses
    /\ goroutines' = [goroutines EXCEPT !.cleanup.pc = "lock",
                                        !.passes = @ + 1]
    /\ UNCHANGED <<rl, wallClock, granted, engineVars>>

\* rl.mu.Lock(); now := time.Now(); the range over rl.tokens begins
CleanupLock ==
    /\ goroutines.cleanup.pc = "lock"
    /\ rl.mu = Unlocked
    /\ rl' = [rl EXCEPT !.mu = CleanupGoroutine]
    /\ \E now \in TimeNow :
        /\ wallClock' = now
        /\ goroutines' =
            [goroutines EXCEPT
                !.cleanup.pc = "range",
                !.cleanup.now = now,
                !.cleanup.range =
                    {id \in Identifiers : rl.tokens[id] # NoBucket}]
    /\ UNCHANGED <<granted, engineVars>>

\* for id, b := range rl.tokens: the next entry, in the order of the map
CleanupNext ==
    /\ goroutines.cleanup.pc = "range"
    /\ \E id \in goroutines.cleanup.range :
        goroutines' = [goroutines EXCEPT !.cleanup.pc = "lock_bucket",
                                         !.cleanup.id = id,
                                         !.cleanup.b = rl.tokens[id]]
    /\ UNCHANGED <<rl, wallClock, granted, engineVars>>

\* b.mu.Lock()
CleanupLockBucket ==
    /\ goroutines.cleanup.pc = "lock_bucket"
    /\ Bucket(goroutines.cleanup.b).mu = Unlocked
    /\ rl' = [rl EXCEPT !.buckets[goroutines.cleanup.b].mu = CleanupGoroutine]
    /\ goroutines' = [goroutines EXCEPT !.cleanup.pc = "visit"]
    /\ UNCHANGED <<wallClock, granted, engineVars>>

\* the bucket is deleted from rl.tokens when its lastRefill is more than ten
\* minutes before now; b.mu.Unlock()
CleanupVisit ==
    /\ goroutines.cleanup.pc = "visit"
    /\ LET f == goroutines.cleanup
           stale == f.now - Bucket(f.b).lastRefill > StaleAfter
       IN  /\ rl' = [rl EXCEPT
                        !.tokens[f.id] = IF stale THEN NoBucket ELSE @,
                        !.buckets[f.b].mu = Unlocked]
           /\ goroutines' = [goroutines EXCEPT
                                !.cleanup.pc = "range",
                                !.cleanup.range = @ \ {f.id},
                                !.cleanup.id = "",
                                !.cleanup.b = NoBucket]
    /\ UNCHANGED <<wallClock, granted, engineVars>>

\* the range is over: rl.mu.Unlock(), and the goroutine waits for the ticker
CleanupUnlock ==
    /\ goroutines.cleanup.pc = "range"
    /\ goroutines.cleanup.range = {}
    /\ rl' = [rl EXCEPT !.mu = Unlocked]
    /\ goroutines' = [goroutines EXCEPT !.cleanup = WaitingCleanup]
    /\ UNCHANGED <<wallClock, granted, engineVars>>

\* a statement of allow or of cleanup, locks included: every step of the
\* limiter but the arrival of a request and of a tick of the ticker
LimiterStep ==
    \/ \E g \in Goroutines :
        \/ AllowLock(g)
        \/ AllowLookup(g)
        \/ AllowLockBucket(g)
        \/ AllowRefill(g)
        \/ AllowReturn(g)
    \/ CleanupLock
    \/ CleanupNext
    \/ CleanupLockBucket
    \/ CleanupVisit
    \/ CleanupUnlock

\* the scheduler runs a goroutine whenever one can run; nothing is assumed
\* of the arrival of requests and of the ticker
LimiterProgress == WF_vars(LimiterStep)

\* requests of every caller
NextRateLimiter ==
    \/ \E g \in Goroutines : AllowCall(g, Identifiers)
    \/ CleanupTick
    \/ LimiterStep

SpecRateLimiter == Init /\ [][NextRateLimiter]_vars /\ LimiterProgress

\* the requests of one caller, which all go to the same bucket
SharedKey == "key-1"

NextSharedKey ==
    \/ \E g \in Goroutines : AllowCall(g, {SharedKey})
    \/ CleanupTick
    \/ LimiterStep

SpecSharedKey == Init /\ [][NextSharedKey]_vars /\ LimiterProgress

----------------------------------------------------------------------------
(* Properties *)

\* the steps of Engine.Calculate in the order of its body
CallOrder == <<"ValidateStrategy", "Validate", "Calculate">>

Returned == pc = "done"
ReturnedResponse == pc = "done" /\ err = NoErr
Called(op) == \E i \in 1..Len(calls) : calls[i].op = op

\* the result strategy.Calculate gave for the current request
StrategyResult == StrategyCalculate(req.Strategy, req, config)

\* C1: every response Engine.Calculate returns without error has
\* FinalPrice >= 0; when the strategy's price is still negative after the
\* engine has rounded it, Calculate returns ErrNegativePrice and no response.
C1_FinalPriceNonNegative ==
    Returned =>
        /\ (err = NoErr => ~response.isNil /\ RGe(response.FinalPrice, Zero))
        /\ (/\ Called("Calculate")
            /\ StrategyResult.err = NoErr
            /\ RLt(RoundToTwoDecimals(StrategyResult.resp.FinalPrice), Zero))
           => (err = ErrNegativePrice /\ response.isNil)

\* a strategy price that is negative after rounding was rejected
C1_Witness ==
    /\ Returned
    /\ Called("Calculate")
    /\ StrategyResult.err = NoErr
    /\ RLt(RoundToTwoDecimals(StrategyResult.resp.FinalPrice), Zero)
    /\ err = ErrNegativePrice

\* C2: Engine.Calculate runs the strategy-name check, then
\* strategy.Validate(config), then strategy.Calculate, and stops at the first
\* failure: an unknown strategy name yields ErrInvalidStrategy with no
\* Validate or Calculate call, and a config that Validate rejects never
\* reaches strategy.Calculate.
C2_StepsInOrder ==
    /\ Len(calls) <= Len(CallOrder)
    /\ \A i \in 1..Len(calls) :
        /\ calls[i].op = CallOrder[i]
        /\ calls[i].err # NoErr =>
              i = Len(calls) /\ Returned /\ err = calls[i].err
        /\ i > 1 => calls[i - 1].err = NoErr
    /\ (Returned /\ req.Strategy \notin ValidStrategies) =>
          /\ err = ErrInvalidStrategy
          /\ ~Called("Validate") /\ ~Called("Calculate")
    /\ (Called("Validate") /\ StrategyValidate(req.Strategy, config) # NoErr) =>
          ~Called("Calculate")

\* a config rejected by Validate ended the call before strategy.Calculate
C2_Witness ==
    /\ Returned
    /\ Len(calls) = 2
    /\ calls[2].op = "Validate"
    /\ calls[2].err # NoErr
    /\ err # NoErr

\* C3: Engine.Calculate returns exactly one of a response and an error: with
\* an error the response is nil, and with a response the error is nil.
C3_ResponseXorError ==
    Returned => (response.isNil <=> err # NoErr)

\* a strategy price failed the final check and no response came back with the error
C3_Witness ==
    /\ Returned
    /\ Called("Calculate")
    /\ StrategyResult.err = NoErr
    /\ err = ErrNegativePrice
    /\ response.isNil
    /\ req.Strategy = StrategyTypeTimeBased

\* round2 as the specification defines it: floor(x*100 + 0.5)/100
Round2(x) == Rat(FloorR(RAdd(RMul(x, R(100)), Rat(1, 2))), 100)

\* C4: for a cost_plus request with base_cost >= 0, a markup_value, markup
\* type "percentage" and a config that passes Validate, the returned
\* FinalPrice is round2(clamp(base_cost*(1+markup_value/100)*(1+tax_rate),
\* min_price, max_price)).
C4_CostPlusPercentageFormula ==
    (/\ ReturnedResponse
     /\ req.Strategy = StrategyTypeCostPlus
     /\ CostPlusMarkupType(req, config) = "percentage")
    => LET baseCost == GetFloat64(req.Inputs, "base_cost").v
           markupValue == CostPlusMarkupValue(req, config).v
           taxRate == CostPlusTaxRate(req, config)
           price == RMul(RMul(baseCost,
                              RAdd(One, RMul(markupValue, Rat(1, 100)))),
                         RAdd(One, taxRate))
       IN  response.FinalPrice =
               Round2(ApplyBounds(price, GetFloat64(config, "min_price").v,
                                  GetFloat64(config, "max_price").v))

\* the base price (base_cost for cost_plus) is a negative number
NegativeBase ==
    LET key == IF req.Strategy = StrategyTypeCostPlus
               THEN "base_cost" ELSE "base_price"
    IN  /\ GetFloat64(req.Inputs, key).ok
        /\ RLt(GetFloat64(req.Inputs, key).v, Zero)

\* C5: in each of the four strategies a negative base_cost or base_price
\* makes Calculate return ErrInvalidFieldValue, and it returns from the check
\* of the base price: no field resolution, multiplier lookup, rule
\* evaluation or price arithmetic has run.
C5_NegativeBaseRejectedFirst ==
    \A i \in 1..Len(calls) :
        (calls[i].op = "Calculate" /\ NegativeBase) =>
            /\ calls[i].err = ErrInvalidFieldValue
            /\ calls[i].stages = <<"base">>
            /\ Returned /\ err = ErrInvalidFieldValue /\ response.isNil

\* geographic: a negative base price with no location is reported as the
\* invalid base price, not as the missing location
C5_Witness ==
    /\ Returned
    /\ req.Strategy = StrategyTypeGeographic
    /\ Called("Calculate")
    /\ NegativeBase
    /\ req.Inputs.location.k = "absent"
    /\ err = ErrInvalidFieldValue

\* the location of a geographic request as the lookup sees it
LookupLocation == ToUpper(TrimSpace(req.Inputs.location.str))
HyphenAt == IndexFrom(LookupLocation, Dash, 1)
CountryPrefix == SubSeq(LookupLocation, 1, HyphenAt - 1)
RegionalMultipliers == config.regional_multipliers.m

\* C6: the geographic multiplier is chosen by strict precedence on the
\* uppercased location: the entry of the full location, else the entry of
\* the country code (the prefix before the first hyphen), else the "default"
\* entry, else 1.0 with region "unknown"; a later tier is used only when
\* every earlier tier has no entry.
C6_RegionPrecedence ==
    (ReturnedResponse /\ req.Strategy = StrategyTypeGeographic) =>
        LET used == response.Details.region_used
            multiplier == response.Details.multiplier
            m == RegionalMultipliers
        IN  IF LookupLocation \in DOMAIN m
            THEN used = LookupLocation /\ multiplier = m[LookupLocation].num
            ELSE IF HyphenAt # 0 /\ CountryPrefix \in DOMAIN m
            THEN used = CountryPrefix /\ multiplier = m[CountryPrefix].num
            ELSE IF DefaultKey \in DOMAIN m
            THEN used = DefaultKey /\ multiplier = m[DefaultKey].num
            ELSE used = UnknownRegion /\ multiplier = One

\* " US-TX " has no entry of its own, "US" and "default" both have one, and
\* the country entry is the one used
C6_Witness ==
    /\ ReturnedResponse
    /\ req.Strategy = StrategyTypeGeographic
    /\ LookupLocation \notin DOMAIN RegionalMultipliers
    /\ HyphenAt # 0
    /\ CountryPrefix \in DOMAIN RegionalMultipliers
    /\ DefaultKey \in DOMAIN RegionalMultipliers
    /\ response.Details.region_used = US
    /\ response.FinalPrice = R(105)

\* the day and the HH:MM time a time_based request is evaluated at
EvaluatedAt == TimeBasedTimestamp(req)
EvaluatedDay == ToLower(EvaluatedAt.day)
EvaluatedTime ==
    TwoDigits(EvaluatedAt.hh) \o <<":">> \o TwoDigits(EvaluatedAt.mm)

\* the multipliers of the windows that match, in declaration order
RECURSIVE MatchingMultipliers(_)
MatchingMultipliers(windows) ==
    IF windows = <<>> THEN <<>>
    ELSE LET tw == ParseTimeWindow(Head(windows))
         IN  (IF windowApplies(EvaluatedDay, EvaluatedTime, tw)
              THEN <<tw.Multiplier>> ELSE <<>>)
             \o MatchingMultipliers(Tail(windows))

\* m[1] * m[2] * ... * m[n], 1.0 for the empty sequence
RECURSIVE ProductOf(_)
ProductOf(ms) ==
    IF ms = <<>> THEN One
    ELSE RMul(ProductOf(SubSeq(ms, 1, Len(ms) - 1)), ms[Len(ms)])

ConfiguredMin == GetFloat64(config, "min_price").v
ConfiguredMax == GetFloat64(config, "max_price").v

\* C7: the window multiplier of a time_based request is the product of the
\* multipliers of all the windows that match the timestamp, in declaration
\* order (1.0 when none matches), never the first match alone or the maximum;
\* each matching window has its adjustment and the product enters the price.
C7_WindowsCompound ==
    (ReturnedResponse /\ req.Strategy = StrategyTypeTimeBased) =>
        LET ms == MatchingMultipliers(config.time_windows.items)
            details == response.Details
            windowAdjustments ==
                SelectSeq(response.Adjustments,
                          LAMBDA a : a.Type = "time_window")
        IN  /\ details.time_multiplier = ProductOf(ms)
            /\ details.active_windows = Len(ms)
            /\ [i \in 1..Len(windowAdjustments) |->
                    windowAdjustments[i].Amount] = ms
            /\ response.FinalPrice =
                 RoundToTwoDecimals(
                   ApplyBounds(RMul(RMul(response.OriginalPrice, ProductOf(ms)),
                                    details.surge_multiplier),
                               ConfiguredMin, ConfiguredMax))

\* two windows of multiplier 1.2 are both active: 100 becomes 144, not 120
C7_Witness ==
    /\ ReturnedResponse
    /\ req.Strategy = StrategyTypeTimeBased
    /\ response.Details.active_windows = 2
    /\ response.Adjustments[1].Amount = Rat(6, 5)
    /\ response.Adjustments[2].Amount = Rat(6, 5)
    /\ response.Details.time_multiplier = Rat(36, 25)
    /\ response.FinalPrice = R(144)

\* the rules of the configuration whose condition holds for the request, parsed
RECURSIVE MatchedRules(_)
MatchedRules(rules) ==
    IF rules = <<>> THEN <<>>
    ELSE LET rule == ParseRule(Head(rules))
         IN  (IF evaluateCondition(rule.Condition, req.Inputs)
              THEN <<rule>> ELSE <<>>)
             \o MatchedRules(Tail(rules))

\* the effect of one action on a price, as the claim states it
ActionEffect(price, action, value) ==
    CASE action = "apply_discount" ->
            RSub(price, RMul(price, RMul(value, Rat(1, 100))))
      [] action = "apply_markup" ->
            RAdd(price, RMul(price, RMul(value, Rat(1, 100))))
      [] action = "set_multiplier" -> RMul(price, value)
      [] action = "add_fixed_amount" -> RAdd(price, value)
      [] action = "set_price" -> value

\* the running price after the first i matched rules
RECURSIVE PriceAfter(_, _, _)
PriceAfter(basePrice, matched, i) ==
    IF i = 0 THEN basePrice
    ELSE ActionEffect(PriceAfter(basePrice, matched, i - 1),
                      matched[i].Action, matched[i].Value)

\* C8: the matched rules are applied one after the other to a running price
\* that starts at base_price, each to the result of the one before, with the
\* five action semantics; the price before bounds is this left-to-right fold.
C8_RulesFoldLeft ==
    (ReturnedResponse /\ req.Strategy = StrategyTypeRuleBased) =>
        LET matched == MatchedRules(config.rules.items)
            basePrice == GetFloat64(req.Inputs, "base_price").v
            adjustments == response.Adjustments
        IN  /\ Len(adjustments) = Len(matched)
            /\ \A i \in 1..Len(matched) :
                /\ adjustments[i].Type = matched[i].Action
                /\ adjustments[i].Applied =
                       RSub(PriceAfter(basePrice, matched, i),
                            PriceAfter(basePrice, matched, i - 1))
                /\ response.Details.rules_applied[i].result =
                       RoundToTwoDecimals(PriceAfter(basePrice, matched, i))
            /\ response.FinalPrice =
                 RoundToTwoDecimals(
                   ApplyBounds(PriceAfter(basePrice, matched, Len(matched)),
                               ConfiguredMin, ConfiguredMax))

\* 15% off 100, then 30 off the discounted price: 85, then 55
C8_Witness ==
    /\ ReturnedResponse
    /\ req.Strategy = StrategyTypeRuleBased
    /\ config.rules.items = <<BulkDiscount, BulkRebate>>
    /\ Len(response.Adjustments) = 2
    /\ response.Adjustments[1].Applied = R(-15)
    /\ response.Adjustments[2].Applied = R(-30)
    /\ response.FinalPrice = R(55)

\* ways to give priorities to n rules: none, rising and falling along the list
PriorityChoices(n) ==
    {[i \in 1..n |-> Absent], [i \in 1..n |-> IntV(i)],
     [i \in 1..n |-> IntV(n + 1 - i)]}

\* the configuration with the priority of the i-th rule replaced by p[i]
Reprioritised(c, p) ==
    [c EXCEPT !.rules.items =
        [i \in 1..Len(@) |-> [@[i] EXCEPT !.priority = p[i]]]]

SamplePrices == {R(-5), Zero, R(11), R(40), R(50), R(100), R(200)}

\* C10: ApplyBounds is idempotent: for every price, min and max,
\* ApplyBounds(ApplyBounds(price, min, max), min, max) equals
\* ApplyBounds(price, min, max).
C10_ApplyBoundsIdempotent ==
    pc = "finish" =>
        \A price \in SamplePrices \cup {response.FinalPrice} :
            ApplyBounds(ApplyBounds(price, ConfiguredMin, ConfiguredMax),
                        ConfiguredMin, ConfiguredMax)
            = ApplyBounds(price, ConfiguredMin, ConfiguredMax)

\* C11: RoundToTwoDecimals is idempotent: rounding a rounded value, negative
\* ones included, gives the rounded value again.
C11_RoundingIdempotent ==
    pc = "finish" =>
        \A x \in SamplePrices \cup {response.FinalPrice} :
            RoundToTwoDecimals(RoundToTwoDecimals(x)) = RoundToTwoDecimals(x)

\* C12: RoundToTwoDecimals(x) is floor(x*100 + 0.5)/100 for every x, positive
\* and negative.
C12_RoundingIsFloor ==
    pc = "finish" =>
        \A x \in SamplePrices \cup {response.FinalPrice} :
            RoundToTwoDecimals(x) = Round2(x)

\* the price of a cost_plus response before the bounds, from its breakdown
CostPlusUnbounded ==
    LET subtotal == RAdd(response.OriginalPrice,
                         response.Adjustments[1].Applied)
    IN  RAdd(subtotal, RMul(subtotal, response.Details.tax_rate))

\* C13: a bound of exactly 0 is no bound, for min and max independently: with
\* min = 0 a price is never raised, with max = 0 never lowered, and with both
\* 0 it is returned unchanged; so is the price cost_plus has just clamped.
C13_ZeroBoundIsNoBound ==
    (pc = "finish" /\ req.Strategy = StrategyTypeCostPlus) =>
        LET NoFloor(before, after) ==
                ConfiguredMin = Zero => RLe(after, before)
            NoCeiling(before, after) ==
                ConfiguredMax = Zero => RGe(after, before)
            Bounded(price) == ApplyBounds(price, ConfiguredMin, ConfiguredMax)
        IN  /\ NoFloor(CostPlusUnbounded, response.FinalPrice)
            /\ NoCeiling(CostPlusUnbounded, response.FinalPrice)
            /\ \A price \in SamplePrices :
                /\ NoFloor(price, Bounded(price))
                /\ NoCeiling(price, Bounded(price))

\* min_price and max_price both 0: a price below 0 is left where it is
C13_Witness ==
    /\ pc = "finish"
    /\ req.Strategy = StrategyTypeCostPlus
    /\ config.min_price = IntV(0)
    /\ config.max_price = IntV(0)
    /\ response.FinalPrice = Rat(-1, 100)
    /\ CostPlusUnbounded = Rat(-1, 100)

\* C14: a successful response computed with min_price > 0 has FinalPrice >=
\* min_price, and with max_price > 0 has FinalPrice <= max_price.
C14_FinalPriceWithinBounds ==
    ReturnedResponse =>
        /\ RGt(ConfiguredMin, Zero) => RGe(response.FinalPrice, ConfiguredMin)
        /\ RGt(ConfiguredMax, Zero) => RLe(response.FinalPrice, ConfiguredMax)

\* what a caller compares of a returned call: the prices, the currency,
\* the adjustments and the error kind
Outcome(resp, e) ==
    [FinalPrice |-> resp.FinalPrice, OriginalPrice |-> resp.OriginalPrice,
     Currency |-> resp.Currency, Adjustments |-> resp.Adjustments,
     err |-> e]

\* both goroutines have returned from Calculate, called with an identical
\* request and an identical config
SameArguments ==
    /\ pc = "done"
    /\ peer.op = "Calculate" /\ peer.pc = "done"
    /\ peer.submitted = submitted
    /\ peer.config = config

\* the calculation of request reads the time of the evaluation: time_based
\* with RequestedAt unset and no parseable timestamp among the inputs
ReadsEvaluationTime(request) ==
    /\ request.Strategy = StrategyTypeTimeBased
    /\ request.RequestedAt.zero
    /\ TimeBasedTimestamp(request) = request.RequestedAt

\* C15, as stated: two calls of Calculate with an identical request
\* (strategy, inputs, RequestedAt) and an identical config return the same
\* FinalPrice, OriginalPrice, Currency and adjustments, or the same error
\* kind, whatever calls were made before or in between.
C15_SameArgumentsSameResult ==
    SameArguments => Outcome(response, err) = Outcome(peer.response, peer.err)

\* C15, amended: two calls of Calculate with an identical request and an
\* identical config return the same FinalPrice, OriginalPrice, Currency and
\* adjustments, or the same error kind, provided the calculation does not
\* read the evaluation time (RequestedAt is set, or the inputs carry a
\* parseable timestamp, or the strategy is not time_based).
C15_SameResultWhenTimeIsGiven ==
    (SameArguments /\ ~ReadsEvaluationTime(submitted)) =>
        Outcome(response, err) = Outcome(peer.response, peer.err)

\* two time_based calls with RequestedAt set to Saturday 09:30, finished at
\* different times, both priced with the weekend window
C15_Witness ==
    /\ SameArguments
    /\ submitted.Strategy = StrategyTypeTimeBased
    /\ submitted.RequestedAt = Saturday0930
    /\ response.CalculatedAt # peer.response.CalculatedAt
    /\ response.FinalPrice = R(200)
    /\ peer.response.FinalPrice = R(200)

\* the frame Calculate(request, c) returns with when it runs alone on a
\* newly built engine and time.Now() is now
CalculateAlone(request, c, now) ==
    LET Step(f) == CalculateFrameStep(f, NewPricingEngine, now)
    IN  Step(Step(Step(Step(Step(CalculateFrame(request, c))))))

\* a returned call has the outcome of the same call run alone
AsAlone(request, c, resp, e) ==
    \E now \in Clock :
        LET alone == CalculateAlone(request, c, now)
        IN  /\ alone.pc = "done"
            /\ Outcome(resp, e) = Outcome(alone.response, alone.err)

\* C16: concurrent callers of one engine share no mutable state. The
\* registry holds exactly cost_plus, geographic, time_based and rule_based
\* in every state of every interleaving of Calculate, ValidateConfig,
\* GetStrategy and ListStrategies calls of two goroutines, and each
\* Calculate call returns the result it returns when run alone.
C16_NoSharedMutableState ==
    /\ strategies = {"cost_plus", "geographic", "time_based", "rule_based"}
    /\ pc = "done" => AsAlone(submitted, config, response, err)
    /\ (peer.op = "Calculate" /\ peer.pc = "done") =>
            AsAlone(peer.submitted, peer.config, peer.response, peer.err)

\* the caller has returned a cost_plus price while the peer is in the
\* middle of a geographic calculation
C16_Witness ==
    /\ pc = "done"
    /\ submitted.Strategy = StrategyTypeCostPlus
    /\ response.FinalPrice = R(125)
    /\ peer.op = "Calculate" /\ peer.pc = "finish"
    /\ peer.req.Strategy = StrategyTypeGeographic
    /\ peer.response.FinalPrice = R(115)
    /\ strategies = NewPricingEngine

\* the engine has returned a price to the handler
Calculated200 == handler.result.returned /\ handler.result.err = NoErr

\* C17: audit logging is fire-and-forget. In the pricing handler a log
\* write is started only after a successful calculation, and carries its
\* price; a step of a log write (success or failure) changes nothing of
\* the handler or of the response; the response to a successful
\* calculation is 200 with the calculated price in whatever state the log
\* write is; and every successful calculation is answered although no log
\* write ever has to return.
C17_LogIsFireAndForget ==
    /\ [][Len(logger') > Len(logger) =>
            /\ Calculated200
            /\ logger' = Append(logger, LogWrite(handler.n,
                                                 handler.result.FinalPrice))
         ]_vars
    /\ [][(logger' # logger /\ Len(logger') = Len(logger)) =>
            handler' = handler]_vars
    /\ []((handler.pc = "sent" /\ Calculated200) =>
            /\ handler.status = StatusOK
            /\ handler.price = handler.result.FinalPrice)
    /\ (Calculated200 ~> (handler.pc = "sent" /\ handler.status = StatusOK))

\* the second request is answered with 200 and the price 125 while its log
\* write is still running and the log write of the first request has failed
C17_Witness ==
    /\ handler.pc = "sent"
    /\ handler.n = 2
    /\ handler.status = StatusOK
    /\ handler.price = R(125)
    /\ LogIs(1, "failed")
    /\ LogIs(2, "running")

\* C18: every configuration a strategy's Validate rejects produces an
\* error of kind ConfigurationInvalid, and Engine.Calculate and
\* ValidateConfig return an error of that kind for it.
C18_RejectedConfigIsConfigurationInvalid ==
    (/\ Returned
     /\ Called("Validate")
     /\ StrategyValidate(req.Strategy, config) # NoErr) =>
        /\ StrategyValidate(req.Strategy, config) = ErrConfigurationInvalid
        /\ err = ErrConfigurationInvalid
        /\ ValidateConfig(strategies, req.Strategy, config) =
                ErrConfigurationInvalid

CurrencyEntries ==
    LET currencyMap == GetMap(config, "currency_map")
    IN  IF currencyMap.ok
        THEN [key \in {k \in DOMAIN currencyMap.v :
                            currencyMap.v[k].k = "string"} |->
                    currencyMap.v[key].str]
        ELSE <<>>

\* C20: the currency of a geographic response is resolved against
\* currency_map with the precedence of the multiplier (the entry of the
\* uppercased location, else the entry of the country code, else the map's
\* "default" entry), then falls back to default_currency of the config,
\* then to "USD".
C20_CurrencyPrecedence ==
    (ReturnedResponse /\ req.Strategy = StrategyTypeGeographic) =>
        LET m == CurrencyEntries
        IN  response.Currency =
                IF LookupLocation \in DOMAIN m THEN m[LookupLocation]
                ELSE IF HyphenAt # 0 /\ CountryPrefix \in DOMAIN m
                THEN m[CountryPrefix]
                ELSE IF DefaultKey \in DOMAIN m THEN m[DefaultKey]
                ELSE IF GetString(config, "default_currency").ok
                THEN GetString(config, "default_currency").v
                ELSE "USD"

\* the (days, start_time, end_time) of the time_window adjustments of the
\* response, in order
WindowAdjustments ==
    SelectSeq(response.Adjustments, LAMBDA a : a.Type = "time_window")

\* the documented matching rule: the day matches and either both times are
\* empty or the HH:MM string lies within [start_time, end_time]
AppliesAsDocumented(tw) ==
    /\ \/ tw.Days = <<>>
       \/ \E i \in 1..Len(tw.Days) : tw.Days[i] = EvaluatedDay
    /\ \/ tw.StartTime = <<>> /\ tw.EndTime = <<>>
       \/ /\ StringLe(tw.StartTime, EvaluatedTime)
          /\ StringLe(EvaluatedTime, tw.EndTime)

\* the windows of the configuration that the documented rule selects
RECURSIVE DocumentedWindows(_)
DocumentedWindows(windows) ==
    IF windows = <<>> THEN <<>>
    ELSE LET tw == ParseTimeWindow(Head(windows))
         IN  (IF AppliesAsDocumented(tw)
              THEN <<<<tw.Days, tw.StartTime, tw.EndTime>>>> ELSE <<>>)
             \o DocumentedWindows(Tail(windows))

\* C21: a time window applies to the timestamp exactly when its days list is
\* empty or contains the lowercased weekday name, and both start_time and
\* end_time are empty or the HH:MM string of the timestamp lies
\* lexicographically within [start_time, end_time], both ends included: the
\* windows that have an adjustment in the response are the windows this rule
\* selects.
C21_WindowAppliesRule ==
    (ReturnedResponse /\ req.Strategy = StrategyTypeTimeBased) =>
        [i \in 1..Len(WindowAdjustments) |-> WindowAdjustments[i].Description]
            = DocumentedWindows(config.time_windows.items)

\* a window whose start_time is after its end_time
Wraps(description) ==
    /\ description[2] # <<>>
    /\ description[3] # <<>>
    /\ ~StringLe(description[2], description[3])

\* C22: a window that wraps past midnight (both times set, start_time
\* lexicographically greater than end_time) never applies: whatever the
\* timestamp and the days list, no adjustment of the response is its own and
\* the window multiplier is the product of the other windows' multipliers.
C22_WrappingWindowNeverApplies ==
    (ReturnedResponse /\ req.Strategy = StrategyTypeTimeBased) =>
        /\ \A i \in 1..Len(WindowAdjustments) :
                ~Wraps(WindowAdjustments[i].Description)
        /\ response.Details.active_windows = Len(WindowAdjustments)
        /\ response.Details.time_multiplier =
                ProductOf([i \in 1..Len(WindowAdjustments) |->
                                WindowAdjustments[i].Amount])

\* Monday 23:30 against the single window 22:00 to 02:00 on every day with
\* multiplier 2: no window is active and 100 stays 100
C22_Witness ==
    /\ ReturnedResponse
    /\ req.Strategy = StrategyTypeTimeBased
    /\ req.Inputs.timestamp = Str(TimestampText(Monday2330))
    /\ config.time_windows = ListV(<<NightWindow>>)
    /\ response.Details.active_windows = 0
    /\ response.Adjustments = <<>>
    /\ response.FinalPrice = R(100)

\* the documented surge multiplier: min(3.0, 1.0 + (demand - threshold) * 0.5)
\* for an enabled surge and a supplied demand above the threshold, the
\* threshold being base_surge_threshold of the configuration and 1.0 when the
\* configuration has none; 1.0 otherwise
DocumentedSurge ==
    LET demand == GetFloat64(req.Inputs, "current_demand")
        configured == GetFloat64(config, "base_surge_threshold")
        threshold == IF configured.ok THEN configured.v ELSE One
        linear == RAdd(One, RMul(RSub(demand.v, threshold), Rat(1, 2)))
    IN  IF /\ config.surge_enabled = Bool(TRUE)
           /\ demand.ok
           /\ RGt(demand.v, threshold)
        THEN IF RGt(linear, R(3)) THEN R(3) ELSE linear
        ELSE One

\* C23: the surge multiplier of a time_based response is
\* min(3.0, 1.0 + (current_demand - threshold) * 0.5) when surge_enabled is
\* true, current_demand is supplied and exceeds the threshold
\* (base_surge_threshold, 1.0 when unset), and 1.0 in every other case; it
\* lies in [1.0, 3.0].
C23_SurgeMultiplier ==
    (ReturnedResponse /\ req.Strategy = StrategyTypeTimeBased) =>
        LET surge == response.Details.surge_multiplier
        IN  /\ surge = DocumentedSurge
            /\ RGe(surge, One)
            /\ RLe(surge, R(3))

\* the field, the operator and the value that the condition of a rule names
ComparisonOf(rule) ==
    CASE rule = TierAtLeastFive ->
            [field |-> "tier", op |-> ">=", value |-> <<"5">>]
      [] rule = QuantityNotMany ->
            [field |-> "quantity", op |-> "!=", value |-> Many]
      [] rule = QuantityBelowMany ->
            [field |-> "quantity", op |-> "<", value |-> Many]
      [] rule = QuantityIsTwenty ->
            [field |-> "quantity", op |-> "==",
             value |-> <<"2", "0", ".", "0">>]
      [] rule = TierIsQuotedGold ->
            [field |-> "tier", op |-> "==", value |-> Gold]
      [] rule = NotGoldSurcharge ->
            [field |-> "tier", op |-> "!=", value |-> Gold]
      [] rule = BulkRebate ->
            [field |-> "quantity", op |-> ">=", value |-> <<"2", "0">>]
      [] rule = QuantityAtMostFive ->
            [field |-> "quantity", op |-> "<=", value |-> <<"5">>]

ComparedRules == ComparisonRuleSet \cup {NotGoldSurcharge, BulkRebate}

\* a rule_based call that has returned, with a valid base price and a single
\* rule of the comparison rules
ComparedOneRule ==
    /\ Returned /\ Called("Calculate")
    /\ req.Strategy = StrategyTypeRuleBased
    /\ req.Inputs.base_price = F64(R(100))
    /\ config.rules.k = "list"
    /\ Len(config.rules.items) = 1
    /\ config.rules.items[1] \in ComparedRules

\* the documented comparison of a field value with the text of a value:
\* numeric when the field is a number and the text reads as a number; else
\* == and != on the texts, and false for the ordering operators
DocumentedComparison(fieldValue, op, value) ==
    LET fieldNum == convertToFloat(fieldValue)
        valueNum == parseFloat(value)
    IN  IF fieldNum.ok /\ valueNum.ok
        THEN CASE op = ">" -> RGt(fieldNum.v, valueNum.v)
               [] op = "<" -> RLt(fieldNum.v, valueNum.v)
               [] op = ">=" -> RGe(fieldNum.v, valueNum.v)
               [] op = "<=" -> RLe(fieldNum.v, valueNum.v)
               [] op = "==" -> fieldNum.v = valueNum.v
               [] op = "!=" -> fieldNum.v # valueNum.v
        ELSE CASE op = "==" -> FormatValue(fieldValue) = value
               [] op = "!=" -> FormatValue(fieldValue) # value
               [] OTHER -> FALSE

\* C24: a condition "<field> <op> <value>" on a field of the inputs is
\* compared numerically when the field and the value are both numbers; when
\* either is not, == and != compare the two as strings and >, <, >=, <= are
\* false; evaluating a condition never raises an error (the call returns a
\* response, with the rule's adjustment exactly when the condition holds).
C24_ComparisonSemantics ==
    ComparedOneRule =>
        /\ err = NoErr
        /\ response # NilResponse
        /\ Len(response.Adjustments) \in {0, 1}
        /\ LET rule == config.rules.items[1]
           IN  (rule # QuantityIsWhat
                    /\ req.Inputs[ComparisonOf(rule).field] # Absent) =>
                    LET c == ComparisonOf(rule)
                    IN  (Len(response.Adjustments) = 1) <=>
                            DocumentedComparison(req.Inputs[c.field], c.op,
                                                 c.value)

\* quantity 20 against "quantity == 20.0" matches: the two are compared as
\* numbers, though their texts "20" and "20.0" differ
C24_Witness ==
    /\ ComparedOneRule
    /\ config.rules.items[1] = QuantityIsTwenty
    /\ req.Inputs.quantity = F64(R(20))
    /\ err = NoErr
    /\ Len(response.Adjustments) = 1
    /\ response.FinalPrice = R(101)

\* C25: the breakdown of a rule_based response holds exactly one adjustment
\* per matched rule, in list order, also when the rule changes the price by
\* zero; a rule whose condition is false records nothing and leaves the
\* running price alone, so that with no matching rule the adjustments are
\* empty and the price before bounds is base_price.
C25_OneAdjustmentPerMatchedRule ==
    (ReturnedResponse /\ req.Strategy = StrategyTypeRuleBased) =>
        LET matched == MatchedRules(config.rules.items)
            adjustments == response.Adjustments
        IN  /\ [i \in 1..Len(adjustments) |->
                    <<adjustments[i].Description, adjustments[i].Type,
                      adjustments[i].Amount>>]
                = [i \in 1..Len(matched) |->
                    <<matched[i].Condition, matched[i].Action,
                      matched[i].Value>>]
            /\ matched = <<>> =>
                /\ adjustments = <<>>
                /\ response.Details.rules_applied = <<>>
                /\ response.FinalPrice =
                        RoundToTwoDecimals(
                            ApplyBounds(response.OriginalPrice,
                                        ConfiguredMin, ConfiguredMax))

\* set_price 40 twice: the second rule changes nothing and still has its
\* adjustment, of 0, after the first one's
C25_Witness ==
    /\ ReturnedResponse
    /\ req.Strategy = StrategyTypeRuleBased
    /\ config.rules.items = <<FlatPrice, FlatPrice>>
    /\ Len(response.Adjustments) = 2
    /\ response.Adjustments[1].Applied = R(-60)
    /\ response.Adjustments[2].Applied = Zero
    /\ response.Adjustments[2].Type = "set_price"

\* a step of Engine.Calculate, from the call to the return of its result
InsideCalculate == pc \notin {"idle", "done"}

\* C27: Engine.Calculate and the strategies never modify the config map or
\* req.Inputs; the only change a call makes to the caller's request is to set
\* RequestedAt, and only when it was zero.
C27_ArgumentsAreLeftAlone ==
    [][InsideCalculate =>
            /\ config' = config
            /\ req'.Inputs = req.Inputs
            /\ req'.Strategy = req.Strategy
            /\ req'.RuleID = req.RuleID
            /\ req'.RequestedAt # req.RequestedAt => req.RequestedAt.zero]_vars

\* a rule_based call has returned its response: the request is the submitted
\* one with RequestedAt set, and the configuration still has its two rules
C27_Witness ==
    /\ ReturnedResponse
    /\ req.Strategy = StrategyTypeRuleBased
    /\ submitted.RequestedAt.zero
    /\ ~req.RequestedAt.zero
    /\ req.Inputs = submitted.Inputs
    /\ req.Inputs.quantity = F64(R(20))
    /\ config.rules.items = <<BulkDiscount, BulkRebate>>

\* the value of a key that is present in the inputs, else the value of the
\* same key in the configuration
InputsFirst(key) ==
    IF req.Inputs[key] # Absent THEN req.Inputs[key] ELSE config[key]

\* C28: in cost_plus a markup_type, markup_value or tax_rate that is present
\* in the request inputs takes precedence over the same key of the
\* configuration, which is used only when the inputs lack the key: the
\* response is computed from the values so chosen.
C28_InputsTakePrecedence ==
    (ReturnedResponse /\ req.Strategy = StrategyTypeCostPlus) =>
        LET details == response.Details
            markupType == InputsFirst("markup_type")
            taxRate == InputsFirst("tax_rate")
        IN  /\ details.markup_value = InputsFirst("markup_value").num
            /\ details.markup_type =
                    IF markupType = Absent THEN "percentage" ELSE markupType.str
            /\ details.tax_rate =
                    IF taxRate = Absent THEN Zero ELSE taxRate.num

\* the input field that the condition of a rule names ("" when it names none)
FieldOfRule(rule) ==
    CASE rule \in {BulkDiscount, BulkRebate, SmallOrderMultiplier,
                   QuantityNotMany, QuantityBelowMany, QuantityIsTwenty,
                   QuantityAtMostFive} -> "quantity"
      [] rule \in {GoldMultiplier, NotGoldSurcharge, TierAtLeastFive,
                   TierIsQuotedGold} -> "tier"
      [] OTHER -> ""

\* the condition of the rule names a field that the inputs lack
FieldIsMissing(rule) ==
    /\ FieldOfRule(rule) # ""
    /\ req.Inputs[FieldOfRule(rule)] = Absent

\* C29: a condition on a field that is absent from the request inputs is
\* false for every operator, != included, also when the configuration has a
\* key of that name: the rule is skipped (it has no adjustment) and, when
\* every rule is skipped, the price before bounds is the base price.
C29_MissingFieldIsFalse ==
    (ReturnedResponse /\ req.Strategy = StrategyTypeRuleBased) =>
        LET rules == config.rules.items
            adjustments == response.Adjustments
        IN  /\ \A i \in 1..Len(rules) :
                   FieldIsMissing(rules[i]) =>
                        \A j \in 1..Len(adjustments) :
                            adjustments[j].Description
                                # rules[i].condition.str
            /\ (\A i \in 1..Len(rules) : FieldIsMissing(rules[i])) =>
                    /\ adjustments = <<>>
                    /\ response.FinalPrice =
                            RoundToTwoDecimals(
                                ApplyBounds(response.OriginalPrice,
                                            ConfiguredMin, ConfiguredMax))

\* "tier!=gold" against inputs without a tier, the configuration having the
\* tier "gold": no adjustment, and 100 stays 100
C29_Witness ==
    /\ ReturnedResponse
    /\ req.Strategy = StrategyTypeRuleBased
    /\ config.rules.items = <<NotGoldSurcharge>>
    /\ config.tier = Str(Gold)
    /\ req.Inputs.tier = Absent
    /\ response.Adjustments = <<>>
    /\ response.FinalPrice = R(100)

\* the mutexes that a goroutine holds
HoldsLimiter(g) == rl.mu = g
HeldBuckets(g) == {b \in 1..Len(rl.buckets) : Bucket(b).mu = g}

\* the goroutine is inside Lock() of a mutex that another goroutine holds
AllowWaits(g) ==
    \/ Frame(g).pc = "lock" /\ rl.mu # Unlocked
    \/ Frame(g).pc = "lock_bucket" /\ Bucket(Frame(g).b).mu # Unlocked
CleanupWaits ==
    \/ goroutines.cleanup.pc = "lock" /\ rl.mu # Unlocked
    \/ /\ goroutines.cleanup.pc = "lock_bucket"
       /\ Bucket(goroutines.cleanup.b).mu # Unlocked

\* the goroutine is at a statement that it can execute
AllowCanRun(g) == Frame(g).pc # "idle" /\ ~AllowWaits(g)
CleanupCanRun == goroutines.cleanup.pc # "waiting" /\ ~CleanupWaits

\* whenever a goroutine waits for a mutex, a goroutine can run
NoDeadlock ==
    (CleanupWaits \/ \E g \in Goroutines : AllowWaits(g)) =>
        (CleanupCanRun \/ \E g \in Goroutines : AllowCanRun(g))

\* no allow call and no cleanup pass is in progress
Quiescent ==
    /\ \A g \in Goroutines : Frame(g).pc = "idle"
    /\ goroutines.cleanup.pc = "waiting"

\* C30: concurrent allow calls and the cleanup never deadlock: allow holds
\* the limiter lock only before it takes a bucket lock (never both), cleanup
\* holds a bucket lock only while it holds the limiter lock, no state is a
\* deadlock, and the allow calls and the cleanup pass that are in progress
\* all terminate.
C30_NoDeadlock ==
    /\ [](\A g \in Goroutines : ~(HoldsLimiter(g) /\ HeldBuckets(g) # {}))
    /\ [](HeldBuckets(CleanupGoroutine) # {} => HoldsLimiter(CleanupGoroutine))
    /\ []NoDeadlock
    /\ ~Quiescent ~> Quiescent

\* cleanup holds the limiter lock and waits for the lock of a bucket that
\* an allow call holds, while the other allow call waits for the limiter lock
C30_Witness ==
    /\ HoldsLimiter(CleanupGoroutine)
    /\ goroutines.cleanup.pc = "lock_bucket"
    /\ \E g, h \in Goroutines :
        /\ Bucket(goroutines.cleanup.b).mu = g
        /\ Frame(h).pc = "lock"

\* C26: the rate limiter is a token bucket per identifier: under every
\* interleaving of allow calls and cleanup the tokens of every bucket stay
\* within [0, capacity], the bucket of a new identifier starts with capacity
\* tokens, a request is allowed only by taking one token, and so no more than
\* capacity requests of one identifier are allowed without a refill.
C26_TokenBucket ==
    /\ \A b \in 1..Len(rl.buckets) :
            Bucket(b).tokens \in 0..rl.capacity
    /\ \A g \in Goroutines :
        /\ (Frame(g).pc = "lock_bucket" /\ ~Frame(g).exists) =>
                Frame(g).tokens = rl.capacity
        /\ Frame(g).pc = "return" =>
                IF Frame(g).allowed
                THEN /\ Frame(g).tokens > 0
                     /\ Bucket(Frame(g).b).tokens = Frame(g).tokens - 1
                ELSE /\ Frame(g).tokens = 0
                     /\ Bucket(Frame(g).b).tokens = 0
    /\ \A id \in Identifiers : granted[id] <= rl.capacity

====
